---- MODULE Spec2Model ----
(***************************************************************************)
(* State-machine model of the real-time ingestion plane of the Deribit     *)
(* data downloader: the tick buffer, the batch writer, the WebSocket       *)
(* collector with its control API, the partitioner, the expiry checker and *)
(* the lifecycle manager.  Each component has a specification of its own   *)
(* (SpecBuffer, SpecWriter, ...) over the module's variables; a component's *)
(* actions leave the other components' variables unchanged.                *)
(***************************************************************************)
EXTENDS Integers, Sequences, FiniteSets, TLC

(***************************************************************************)
(* Bounds of the model.                                                    *)
(***************************************************************************)
\* Ticks the exchange delivers in one run (tick ids are 1..MaxTicks).
MaxTicks == 4
\* TickBuffer(max_quotes, max_trades, max_depth): the configured capacities.
MaxQuotes == 2
MaxTrades == 2
MaxDepth == 1
\* get_and_clear calls in one run (caps the flushes_triggered counter).
MaxFlushes == 3
\* Longest instrument list handed to partition_instruments, and the largest
\* max_per_partition tried.
MaxPartLen == 3
MaxPartSize == 3
\* max_per_partition of the fleet (250 in the deployment).
MaxPerPartition == 1
\* _sync_instruments calls of the lifecycle manager in one run.
MaxSyncs == 1

\* _sync_instruments calls in one run whose subscription rows are kept.
MaxAuditSyncs == 2
\* Connection attempts of the WebSocket loop in one run (caps the
\* connection_attempts counter).
MaxAttempts == 9

\* self.max_reconnect_delay
max_reconnect_delay == 60

\* _write_quote_batch(..., max_retries=3)
max_retries == 3

\* self.heartbeat_timeout_sec = 10
heartbeat_timeout_sec == 10

\* self.no_ticks_refresh_threshold_sec = 300
no_ticks_refresh_threshold_sec == 300

\* self.cache_duration = timedelta(hours=1), in seconds
cache_duration == 3600

\* INSTRUMENT_REFRESH_INTERVAL_SEC, 3600 by default
refresh_interval_sec == 3600

\* FundingRatesCollector.__init__: check_interval_sec
check_interval_sec == 600

\* The funding collector's clock stops here: a day and two hours.
MaxFundClock == 93600

\* WebSocketTickCollector(flush_interval_sec=3)
flush_interval_sec == 3

\* TickBuffer(flush_threshold_pct=80.0)
flush_threshold_pct == 80

VARIABLES
    \* ---- TickBuffer (scripts/tick_buffer.py)
    quotes,          \* self._quotes : deque(maxlen=max_quotes), oldest first
    trades,          \* self._trades : deque(maxlen=max_trades)
    depth,           \* self._depth  : deque(maxlen=max_depth)
    stats,           \* quote_stats / trade_stats / depth_stats
    lastDrain,       \* what the last get_and_clear returned
    nextTick,        \* history: id of the next tick to be added
    returned,        \* history: tick id -> number of get_and_clear results holding it
    clearAllCalled,  \* history: clear_all has been called
    \* ---- MultiCurrencyTickWriter and the store (scripts/tick_writer_multi.py)
    quotesTable,     \* {ccy}_option_quotes: a set of rows
    tradesTable,     \* {ccy}_option_trades: a set of rows
    batch_size,      \* self.batch_size
    lastNonNull,     \* history: quote key -> column -> last non-null value handed
                     \* to a committed upsert (NULL when there was none)
    \* ---- partition_instruments (scripts/ws_multi_conn_orchestrator.py)
    partArgs,        \* the call's arguments: instruments, max_per_partition
    partRet,         \* done: whether the call returned; groups: the value returned
    \* ---- instrument_expiry_checker (scripts/instrument_expiry_checker.py)
    expArgs,         \* the call's arguments and the clock: name, buffer_minutes, now
    expRet,          \* done: whether the calls returned; expired, kept: what
                     \* is_instrument_expired and filter_expired_instruments returned
    \* ---- the exchange, and the collector processes with their control API
    \* ---- (scripts/ws_multi_conn_orchestrator.py, ws_tick_collector_multi.py,
    \* ---- collector_control_api.py)
    exchange,        \* instrument -> "future" | "live" | "expired": what the
                     \* exchange's get_instruments call reports
    collectors,      \* connection id -> [started, instruments, ws, subscribed_channels]
    lastCall,        \* history: connection id -> the API client's last call
    subscribedBefore, \* history: connection id -> instrument -> where the API
                     \* client's last 200 /api/subscribe response naming it put
                     \* it ("done", "failed", "already"), or "no" when there was
                     \* none or the client named it in an /api/unsubscribe since
    \* ---- LifecycleManager and its tables (scripts/lifecycle_manager.py)
    instrument_metadata, \* instrument -> "absent" | "active" | "inactive" (is_active)
    mgrPc,           \* "idle", or "sync" inside _sync_instruments
    todoExpired,     \* expired_instruments still to be handled in this cycle
    todoNew,         \* new_instrument_details still to be handled in this cycle
    syncs,           \* _sync_instruments calls so far
    cycle,           \* history of the current cycle: the tracked and active sets
                     \* it started from, the instrument_expired and
                     \* instrument_listed rows it put into lifecycle_events, and
                     \* whether a database call of it failed
    \* ---- _websocket_loop of one collector (scripts/ws_tick_collector_multi.py)
    running,         \* self.running
    reconnect_delay, \* self.reconnect_delay
    loopPc,          \* "connect": at websockets.connect; "session": connected;
                     \* "sleep": in _handle_reconnect's sleep; "exited"
    connection_attempts, \* self.stats['connection_attempts']
    failures,        \* history: exceptions of the loop since the last successful
                     \* connect
    slept,  \* history: the delay of the sleep in progress or last done
    \* ---- threads inside TickBuffer's methods (scripts/tick_buffer.py)
    lock,            \* self._lock: the thread holding it, or Free
    tpc,             \* thread -> the statement of add_* / get_and_clear it is at
    adding,          \* producer -> the kind and tick of the add_* call it is in
    local,           \* the locals quotes, trades, depth of get_and_clear
    snap,            \* history: the three deques when get_and_clear last took
                     \* the lock
    appendedTicks,        \* history: ticks whose deque.append has run
    evicted,         \* history: ticks a deque at maxlen discarded
    contended,  \* history: ticks whose add_* call waited for get_and_clear
    \* ---- _flush_loop of one collector (scripts/ws_tick_collector_multi.py)
    flushPc,         \* "sleep": in asyncio.sleep(flush_interval_sec); "exited"
    elapsed,         \* seconds of the current sleep that have passed
    flushed,         \* history: ticks handed to writer.write_quotes,
                     \* write_trades or write_depth_snapshots
    overdue,  \* history: seconds that passed with should_flush() true
    \* ---- _write_quote_batch / _write_trade_batch (scripts/tick_writer_multi.py)
    retryPc,         \* "idle"; "execute": at conn.executemany; "sleep": in the
                     \* backoff sleep; "returned"; "raised"
    attempt,         \* the loop variable of `for attempt in range(max_retries)`
    retryCall,       \* the call in progress or last made: kind and sub-batch
    failed_writes,   \* self._write_stats['failed_writes']
    batchCalls,      \* history: _write_*_batch calls so far
    attemptsMade,    \* history: executemany attempts of the call
    sleeps,  \* history: the delays the call has slept, in order
    \* ---- the WebSocket session of a collector as the control API meets it
    \* ---- (scripts/ws_tick_collector_multi.py, collector_control_api.py)
    wsOpen,          \* connection id -> the connection behind self.ws is open
    sentChannels,    \* connection id -> the channels of the subscription
                     \* message the last _subscribe_to_instruments built
    queued,          \* history: connection id -> instrument -> "waiting" after
                     \* an /api/subscribe naming it was answered 200 with the
                     \* connection not open, "connected" once a connect
                     \* followed, "no" otherwise or after an /api/unsubscribe
    dropped,         \* history: the same for an /api/unsubscribe naming an
                     \* owned instrument, until an /api/subscribe names it
    statusResp,      \* history: connection id -> the last GET /api/status
                     \* response and whether the connection was open then
    \* ---- the orchestrator's main() and the collector's start() and stop()
    \* ---- (scripts/ws_multi_conn_orchestrator.py, ws_tick_collector_multi.py)
    mainPc,          \* the statement main(), start() or stop() is at
    apiUp,           \* the control API's HTTP server is serving
    poolOpen,        \* self.writer.pool is an open pool
    wsState,         \* self.ws: "none" (None), "open", or "closed"
    restAnswered,    \* instruments whose initial REST order book had data
    seedRows,        \* instruments with a row written by the initial snapshot
    snapshotDone,    \* the initial fetch_and_populate has returned
    framesSeen,      \* history: WebSocket frames processed so far
    stopLog,  \* history: the steps of the shutdown, in order
    \* ---- _heartbeat_monitor of one collector (scripts/ws_tick_collector_multi.py)
    clock,           \* seconds since start() created the tasks
    last_tick_time,  \* self.last_tick_time in seconds of clock, NoTick for None
    heartPc,         \* "sleep": in asyncio.sleep(heartbeat_timeout_sec); "exited"
    lastCheck,       \* history: the last check of the monitor: the seconds
                     \* without a tick it was made after, counted from startup
                     \* when no tick has arrived, and whether it called
                     \* _refresh_instruments
    \* ---- MultiCurrencyInstrumentFetcher (scripts/instrument_fetcher_multi.py)
    cache,           \* self.cache: some is FALSE for None, names the list
    cache_timestamp, \* self.cache_timestamp in seconds, NoStamp for None
    utcNow,          \* the wall clock, seconds since 1970-01-01T00:00:00Z
    lastFetch,       \* history: the last get_top_n_options call: its n, whether
                     \* it made a REST request, whether that failed, what it
                     \* returned or that it raised, and the last successful
                     \* fetch before it
    lastSuccess,     \* history: the answer and the time of the last call whose
                     \* REST request succeeded
    \* ---- _instrument_refresh_loop and _refresh_instruments of one collector
    \* ---- (scripts/ws_tick_collector_multi.py)
    self_instruments, \* self.instruments: the owned list
    top_n_instruments, \* self.top_n_instruments (0 when the orchestrator
                     \* assigned the partition)
    selfWs,          \* self.ws: "none" (None), "open", or "closed"
    subscribed,      \* the channels of the last subscription message sent
    lastRefresh,     \* history: the last _refresh_instruments call made by the
                     \* refresh loop: when, whether the catalog answered, and
                     \* the owned list and the connection it left
    resubscribed,    \* history: a session has started since that call
    \* ---- get_partition_for_connection in the orchestrator's main()
    \* ---- (scripts/ws_multi_conn_orchestrator.py)
    orchArgs,        \* CONNECTION_ID, whether the REST request of
                     \* fetch_all_options succeeds, and what the exchange lists
    assigned,        \* collector.instruments as main() sets it
    \* ---- the HTTP side of the control API (scripts/collector_control_api.py)
    httpResp,        \* history: connection id -> the last POST /api/subscribe
                     \* or /api/unsubscribe: the kind of body sent, the status
                     \* and the success and error members of the response, and
                     \* whether the collector's instruments and
                     \* subscribed_channels were left as they were
    \* ---- the subscription rows of lifecycle_events (scripts/lifecycle_manager.py)
    rpcLog,          \* the collector endpoints the current cycle posted to, and
                     \* what came back and was logged for each
    \* ---- FundingRatesCollector (scripts/funding_rates_collector.py)
    fundRunning,     \* self.running
    fundPc,          \* "new", "loop" (inside start's while loop) or "closed"
    fundNow,         \* datetime.now(timezone.utc), in seconds since a midnight UTC
    fundStarted,     \* the time at which start() entered its loop
    collectedAt,     \* the times at which the loop called _collect_latest_funding_rates
    \* ---- one flush seen from the store (ws_tick_collector_multi.py, tick_writer_multi.py)
    pendingTicks,    \* the ids of the quotes, trades and depth snapshots in the buffer
    storeRows,       \* the ids written to the three tables
    storeBatch,      \* writer.batch_size
    ticksMade,       \* ticks buffered so far, per kind
    lastFlushCall,   \* the last _flush_buffers call: what it drained and what failed
    \* ---- _process_messages seen frame by frame (scripts/ws_tick_collector_multi.py)
    framesRead,      \* frames the async for loop has taken from the WebSocket
    frameStats,      \* self.stats: errors, ticks_processed, quotes_received, trades_received
    frameBuffered,   \* quotes and trades the handlers added to the buffer
    lastFrame,       \* the last frame, with what it added and counted
    \* ---- the WebSocket shared by _process_messages and the control API
    sockPc,          \* the session loop: "connecting" (self.ws is None) or "reading"
    wsInbox,         \* frames that arrived and that no recv() has returned yet
    confirmDue,      \* public/subscribe requests of handlers the exchange has not answered
    apiCalls,        \* _subscribe_instrument / _unsubscribe_instrument calls so far
    apiResult,       \* how the last such call ended
    dataDelivered,   \* ticker and trades frames delivered on the WebSocket
    dataDecoded,     \* ... of which _process_messages decoded
    dataTaken,       \* ... of which a handler's recv() returned
    \* ---- a refresh of a collector that also serves the control API
    racePc,          \* _refresh_instruments: "idle" or "fetching" (awaiting the REST answer)
    raceCalls,       \* control API calls and refreshes so far
    raceAdded,       \* names /api/subscribe appended since the refresh began
    raceRemoved,     \* names /api/unsubscribe removed since the refresh began
    raceLast,        \* the refresh that completed last
    \* ---- the collector run by its own main(), stopped by a signal
    sigRunning,      \* self.running
    startPc,         \* start(): "gather", "finally" or "returned"
    sessPc,          \* _websocket_loop: "connecting", "reading", "backoff" or "ended"
    sigWs,           \* self.ws: "none", "open" or "closed"
    sleepers,        \* the other tasks that have not returned yet
    sigPool,         \* whether the writer's pool is open
    sigQueue,        \* the ticks in the buffer
    sigNext,         \* ticks accepted into the buffer so far
    sigHanded,       \* ticks handed to the writer while its pool was open
    sigRefused,      \* ticks of a flush that raised on the closed pool
    stops,           \* the two stop() calls: where each is and the lists it drained
    \* ---- the store as TickWriter (the ETH-only writer) leaves it
    ethQuotes,       \* eth_option_quotes
    ethTrades        \* eth_option_trades

bufferVars == <<quotes, trades, depth, stats, lastDrain, nextTick, returned, clearAllCalled>>

writerVars == <<quotesTable, tradesTable, batch_size, lastNonNull>>

partVars == <<partArgs, partRet>>

expVars == <<expArgs, expRet>>

fleetVars == <<exchange, collectors, lastCall, subscribedBefore>>

mgrVars == <<instrument_metadata, mgrPc, todoExpired, todoNew, syncs, cycle>>

loopVars == <<running, reconnect_delay, loopPc, connection_attempts, failures, slept>>

threadVars == <<lock, tpc, adding, local, snap, appendedTicks, evicted, contended>>

flushVars == <<flushPc, elapsed, flushed, overdue>>

retryVars == <<retryPc, attempt, retryCall, failed_writes, batchCalls, attemptsMade, sleeps>>

sessionVars == <<wsOpen, sentChannels, queued, dropped, statusResp>>

lifeVars == <<mainPc, apiUp, poolOpen, wsState, restAnswered, seedRows, snapshotDone, framesSeen, stopLog>>

heartVars == <<clock, last_tick_time, heartPc, lastCheck>>

catalogVars == <<cache, cache_timestamp, utcNow, lastFetch, lastSuccess>>

refreshVars == <<self_instruments, top_n_instruments, selfWs, subscribed, lastRefresh, resubscribed>>

orchVars == <<orchArgs, assigned>>

httpVars == <<httpResp>>

auditVars == <<rpcLog>>

fundVars == <<fundRunning, fundPc, fundNow, fundStarted, collectedAt>>

storeVars == <<pendingTicks, storeRows, storeBatch, ticksMade, lastFlushCall>>

frameVars == <<framesRead, frameStats, frameBuffered, lastFrame>>

sockVars == <<sockPc, wsInbox, confirmDue, apiCalls, apiResult, dataDelivered, dataDecoded, dataTaken>>

raceVars == <<racePc, raceCalls, raceAdded, raceRemoved, raceLast>>

signalVars == <<sigRunning, startPc, sessPc, sigWs, sleepers, sigPool, sigQueue, sigNext, sigHanded, sigRefused, stops>>

twinVars == <<ethQuotes, ethTrades>>

vars == <<bufferVars, writerVars, partVars, expVars, fleetVars, mgrVars, loopVars, threadVars, flushVars, retryVars, sessionVars, lifeVars, heartVars, catalogVars, refreshVars, orchVars, httpVars, auditVars, fundVars, storeVars, frameVars, sockVars, raceVars, signalVars, twinVars>>

\* What each component's actions leave unchanged.
exceptBuffer == <<writerVars, partVars, expVars, fleetVars, mgrVars, loopVars, threadVars, flushVars, retryVars, sessionVars, lifeVars, heartVars, catalogVars, refreshVars, orchVars, httpVars, auditVars, fundVars, storeVars, frameVars, sockVars, raceVars, signalVars, twinVars>>

exceptWriter == <<bufferVars, partVars, expVars, fleetVars, mgrVars, loopVars, threadVars, flushVars, retryVars, sessionVars, lifeVars, heartVars, catalogVars, refreshVars, orchVars, httpVars, auditVars, fundVars, storeVars, frameVars, sockVars, raceVars, signalVars, twinVars>>

exceptPart == <<bufferVars, writerVars, expVars, fleetVars, mgrVars, loopVars, threadVars, flushVars, retryVars, sessionVars, lifeVars, heartVars, catalogVars, refreshVars, orchVars, httpVars, auditVars, fundVars, storeVars, frameVars, sockVars, raceVars, signalVars, twinVars>>

exceptExp == <<bufferVars, writerVars, partVars, fleetVars, mgrVars, loopVars, threadVars, flushVars, retryVars, sessionVars, lifeVars, heartVars, catalogVars, refreshVars, orchVars, httpVars, auditVars, fundVars, storeVars, frameVars, sockVars, raceVars, signalVars, twinVars>>

exceptFleet == <<bufferVars, writerVars, partVars, expVars, loopVars, threadVars, flushVars, retryVars, sessionVars, lifeVars, heartVars, catalogVars, refreshVars, orchVars, httpVars, auditVars, fundVars, storeVars, frameVars, sockVars, raceVars, signalVars, twinVars>>

exceptLoop == <<bufferVars, writerVars, partVars, expVars, fleetVars, mgrVars, threadVars, flushVars, retryVars, sessionVars, lifeVars, heartVars, catalogVars, refreshVars, orchVars, httpVars, auditVars, fundVars, storeVars, frameVars, sockVars, raceVars, signalVars, twinVars>>

exceptThreads == <<writerVars, partVars, expVars, fleetVars, mgrVars, loopVars, flushVars, retryVars, sessionVars, lifeVars, heartVars, catalogVars, refreshVars, orchVars, httpVars, auditVars, fundVars, storeVars, frameVars, sockVars, raceVars, signalVars, twinVars>>

exceptFlush == <<writerVars, partVars, expVars, fleetVars, mgrVars, threadVars, retryVars, sessionVars, lifeVars, heartVars, catalogVars, refreshVars, orchVars, httpVars, auditVars, fundVars, storeVars, frameVars, sockVars, raceVars, signalVars, twinVars>>

exceptRetry == <<bufferVars, partVars, expVars, fleetVars, mgrVars, loopVars, threadVars, flushVars, sessionVars, lifeVars, heartVars, catalogVars, refreshVars, orchVars, httpVars, auditVars, fundVars, storeVars, frameVars, sockVars, raceVars, signalVars, twinVars>>

exceptSession == <<bufferVars, writerVars, partVars, expVars, mgrVars, loopVars, threadVars, flushVars, retryVars, lifeVars, heartVars, catalogVars, refreshVars, orchVars, httpVars, auditVars, fundVars, storeVars, frameVars, sockVars, raceVars, signalVars, twinVars>>

exceptLife == <<writerVars, partVars, expVars, fleetVars, mgrVars, threadVars, retryVars, sessionVars, heartVars, catalogVars, refreshVars, orchVars, httpVars, auditVars, fundVars, storeVars, frameVars, sockVars, raceVars, signalVars, twinVars>>

exceptHeart == <<bufferVars, writerVars, partVars, expVars, fleetVars, mgrVars, threadVars, flushVars, retryVars, sessionVars, lifeVars, catalogVars, refreshVars, orchVars, httpVars, auditVars, fundVars, storeVars, frameVars, sockVars, raceVars, signalVars, twinVars>>

exceptCatalog == <<bufferVars, writerVars, partVars, expVars, fleetVars, mgrVars, loopVars, threadVars, flushVars, retryVars, sessionVars, lifeVars, heartVars, refreshVars, orchVars, httpVars, auditVars, fundVars, storeVars, frameVars, sockVars, raceVars, signalVars, twinVars>>

exceptRefresh == <<bufferVars, writerVars, partVars, expVars, fleetVars, mgrVars, threadVars, flushVars, retryVars, sessionVars, lifeVars, orchVars, httpVars, auditVars, fundVars, storeVars, frameVars, sockVars, raceVars, signalVars, twinVars>>

exceptOrch == <<writerVars, partVars, expVars, fleetVars, mgrVars, threadVars, retryVars, sessionVars, heartVars, catalogVars, refreshVars, httpVars, auditVars, fundVars, storeVars, frameVars, sockVars, raceVars, signalVars, twinVars>>

exceptHttp == <<bufferVars, writerVars, partVars, expVars, mgrVars, loopVars, threadVars, flushVars, retryVars, sessionVars, lifeVars, heartVars, catalogVars, refreshVars, orchVars, auditVars, fundVars, storeVars, frameVars, sockVars, raceVars, signalVars, twinVars>>

exceptSync == <<bufferVars, writerVars, partVars, expVars, loopVars, threadVars, flushVars, retryVars, sessionVars, lifeVars, heartVars, catalogVars, refreshVars, orchVars, httpVars, fundVars, storeVars, frameVars, sockVars, raceVars, signalVars, twinVars>>

exceptFund == <<fleetVars, mgrVars, bufferVars, writerVars, partVars, expVars, loopVars, threadVars, flushVars, retryVars, sessionVars, lifeVars, heartVars, catalogVars, refreshVars, orchVars, httpVars, auditVars, storeVars, frameVars, sockVars, raceVars, signalVars, twinVars>>

exceptStore == <<fleetVars, mgrVars, bufferVars, writerVars, partVars, expVars, loopVars, threadVars, flushVars, retryVars, sessionVars, lifeVars, heartVars, catalogVars, refreshVars, orchVars, httpVars, auditVars, fundVars, frameVars, sockVars, raceVars, signalVars, twinVars>>

exceptFrames == <<fleetVars, mgrVars, bufferVars, writerVars, partVars, expVars, loopVars, threadVars, flushVars, retryVars, sessionVars, lifeVars, heartVars, catalogVars, refreshVars, orchVars, httpVars, auditVars, fundVars, storeVars, sockVars, raceVars, signalVars, twinVars>>

exceptSock == <<fleetVars, mgrVars, bufferVars, writerVars, partVars, expVars, loopVars, threadVars, flushVars, retryVars, sessionVars, lifeVars, heartVars, catalogVars, refreshVars, orchVars, httpVars, auditVars, fundVars, storeVars, frameVars, raceVars, signalVars, twinVars>>

exceptRace == <<fleetVars, mgrVars, bufferVars, writerVars, partVars, expVars, threadVars, flushVars, retryVars, sessionVars, lifeVars, orchVars, httpVars, auditVars, fundVars, storeVars, frameVars, sockVars, signalVars, twinVars>>

exceptSignal == <<fleetVars, mgrVars, bufferVars, writerVars, partVars, expVars, loopVars, threadVars, flushVars, retryVars, sessionVars, lifeVars, heartVars, catalogVars, refreshVars, orchVars, httpVars, auditVars, fundVars, storeVars, frameVars, sockVars, raceVars, twinVars>>

exceptTwin == <<bufferVars, partVars, expVars, fleetVars, mgrVars, loopVars, threadVars, flushVars, retryVars, sessionVars, lifeVars, heartVars, catalogVars, refreshVars, orchVars, httpVars, auditVars, fundVars, storeVars, frameVars, sockVars, raceVars, signalVars>>

\* The collectors' actions also leave the lifecycle manager alone.
exceptCollectors == <<exceptFleet, mgrVars>>

(***************************************************************************)
(* Helpers.                                                                *)
(***************************************************************************)
Range(s) == {s[i] : i \in DOMAIN s}

Max(a, b) == IF a >= b THEN a ELSE b

Min(a, b) == IF a <= b THEN a ELSE b

(***************************************************************************)
(* TickBuffer.                                                             *)
(***************************************************************************)
Kinds == {"quotes", "trades", "depth"}

Capacity(kind) ==
    CASE kind = "quotes" -> MaxQuotes
      [] kind = "trades" -> MaxTrades
      [] OTHER -> MaxDepth

\* collections.deque.append on a deque built with maxlen: when the deque
\* already holds maxlen items the item at the left end is discarded.
DequeAppendDropOldest(dq, maxlen, x) ==
    IF maxlen = 0 THEN dq
    ELSE IF Len(dq) >= maxlen THEN Append(Tail(dq), x)
    ELSE Append(dq, x)

DequeAppend(dq, maxlen, x) == DequeAppendDropOldest(dq, maxlen, x)

\* get_*_utilization, in whole percent.
Utilization(dq, maxlen) == IF maxlen > 0 THEN (Len(dq) * 100) \div maxlen ELSE 0

\* The ticks in the three deques.
Buffered == Range(quotes) \cup Range(trades) \cup Range(depth)

InitStats == [k \in Kinds |->
    [ticks_received |-> 0, ticks_written |-> 0, flushes_triggered |-> 0,
     peak_utilization_pct |-> 0]]

\* BufferStats.record_flush
record_flush(st, num_ticks, utilization_pct) ==
    [st EXCEPT !.ticks_written = @ + num_ticks,
               !.flushes_triggered = @ + 1,
               !.peak_utilization_pct = Max(@, utilization_pct)]

BufferInit ==
    /\ quotes = <<>>
    /\ trades = <<>>
    /\ depth = <<>>
    /\ stats = InitStats
    /\ lastDrain = [quotes |-> <<>>, trades |-> <<>>, depth |-> <<>>]
    /\ nextTick = 1
    /\ returned = [t \in 1..MaxTicks |-> 0]
    /\ clearAllCalled = FALSE

add_quote ==
    /\ nextTick <= MaxTicks
    /\ quotes' = DequeAppend(quotes, MaxQuotes, nextTick)
    /\ stats' = [stats EXCEPT !["quotes"].ticks_received = @ + 1]
    /\ nextTick' = nextTick + 1
    /\ UNCHANGED <<trades, depth, lastDrain, returned, clearAllCalled>>

add_trade ==
    /\ nextTick <= MaxTicks
    /\ trades' = DequeAppend(trades, MaxTrades, nextTick)
    /\ stats' = [stats EXCEPT !["trades"].ticks_received = @ + 1]
    /\ nextTick' = nextTick + 1
    /\ UNCHANGED <<quotes, depth, lastDrain, returned, clearAllCalled>>

add_depth ==
    /\ nextTick <= MaxTicks
    /\ depth' = DequeAppend(depth, MaxDepth, nextTick)
    /\ stats' = [stats EXCEPT !["depth"].ticks_received = @ + 1]
    /\ nextTick' = nextTick + 1
    /\ UNCHANGED <<quotes, trades, lastDrain, returned, clearAllCalled>>

get_and_clear ==
    /\ stats["quotes"].flushes_triggered < MaxFlushes
    /\ lastDrain' = [quotes |-> quotes, trades |-> trades, depth |-> depth]
    /\ stats' = [k \in Kinds |->
          CASE k = "quotes" ->
                 record_flush(stats[k], Len(quotes), Utilization(quotes, MaxQuotes))
            [] k = "trades" ->
                 record_flush(stats[k], Len(trades), Utilization(trades, MaxTrades))
            [] OTHER ->
                 record_flush(stats[k], Len(depth), Utilization(depth, MaxDepth))]
    /\ returned' = [t \in 1..MaxTicks |->
          IF t \in Range(quotes) \cup Range(trades) \cup Range(depth)
          THEN returned[t] + 1 ELSE returned[t]]
    /\ quotes' = <<>>
    /\ trades' = <<>>
    /\ depth' = <<>>
    /\ UNCHANGED <<nextTick, clearAllCalled>>

clear_all ==
    /\ ~clearAllCalled
    /\ quotes' = <<>>
    /\ trades' = <<>>
    /\ depth' = <<>>
    /\ clearAllCalled' = TRUE
    /\ UNCHANGED <<stats, lastDrain, nextTick, returned>>

BufferNext ==
    \/ add_quote /\ UNCHANGED exceptBuffer
    \/ add_trade /\ UNCHANGED exceptBuffer
    \/ add_depth /\ UNCHANGED exceptBuffer
    \/ get_and_clear /\ UNCHANGED exceptBuffer
    \/ clear_all /\ UNCHANGED exceptBuffer

(***************************************************************************)
(* MultiCurrencyTickWriter and the store's quotes and trades tables.       *)
(***************************************************************************)
NULL == "NULL"

Values == {"1", "2"}

\* The updatable columns of {ccy}_option_quotes, as the INSERT lists them.
QuoteCols == {"best_bid_price", "best_bid_amount", "best_ask_price", "best_ask_amount",
              "underlying_price", "mark_price", "delta", "gamma", "theta", "vega", "rho",
              "implied_volatility", "bid_iv", "ask_iv", "mark_iv", "open_interest",
              "last_price"}

\* Shapes of incoming quotes: the columns that are not None.
BookCols == {"best_bid_price", "best_bid_amount", "best_ask_price", "best_ask_amount"}

NonBookCols == QuoteCols \ BookCols

QuoteShapes == {BookCols, NonBookCols}

Timestamps == {1, 2}

WriterInstrument == "ETH-10NOV25-3100-C"

\* The dict passed for one quote: quote.get(column) is None outside its shape.
Quote(ts, shape, v) ==
    [timestamp |-> ts, instrument_name |-> WriterInstrument,
     cols |-> [c \in QuoteCols |-> IF c \in shape THEN v ELSE NULL]]

QuoteInputs == {Quote(ts, sh, v) : ts \in Timestamps, sh \in QuoteShapes, v \in Values}

TradeIds == {"t1", "t2"}

\* Two trade dicts per trade id, differing in every column but the key.
Trade(id, v) ==
    [trade_id |-> id, instrument_name |-> WriterInstrument,
     timestamp |-> IF v = "1" THEN 1 ELSE 2,
     price |-> v, amount |-> v,
     direction |-> IF v = "1" THEN "buy" ELSE "sell",
     iv |-> IF v = "1" THEN NULL ELSE v,
     index_price |-> v]

TradeInputs == {Trade(id, v) : id \in TradeIds, v \in Values}

\* Lengths of the lists handed to one write_quotes / write_trades call.
BatchLens == {1, 2}

Lists(S) == UNION {[1..k -> S] : k \in BatchLens}

QuoteKeys == Timestamps \X {WriterInstrument}

\* SQL COALESCE(a, b): the first argument that is not NULL.
CoalesceIncomingOnly(incoming, existing) == incoming

COALESCE(incoming, existing) == IF incoming # NULL THEN incoming ELSE existing

\* One execution of the quotes statement: INSERT ... ON CONFLICT (timestamp,
\* instrument) DO UPDATE SET col = COALESCE(EXCLUDED.col, table.col), ...
QuoteConflicts(table, q) ==
    {r \in table : r.timestamp = q.timestamp /\ r.instrument = q.instrument_name}

UpsertQuote(table, q) ==
    IF QuoteConflicts(table, q) = {}
    THEN table \cup {[timestamp |-> q.timestamp, instrument |-> q.instrument_name,
                      cols |-> q.cols]}
    ELSE {IF r \in QuoteConflicts(table, q)
          THEN [r EXCEPT !.cols = [c \in QuoteCols |-> COALESCE(q.cols[c], r.cols[c])]]
          ELSE r : r \in table}

\* One execution of the trades statement: INSERT ... ON CONFLICT (trade_id,
\* instrument) DO NOTHING.
TradeRow(t) ==
    [timestamp |-> t.timestamp, instrument |-> t.instrument_name,
     trade_id |-> t.trade_id, price |-> t.price, amount |-> t.amount,
     direction |-> t.direction, iv |-> t.iv, index_price |-> t.index_price]

InsertTradePlain(table, t) == table \cup {TradeRow(t)}

\* ON CONFLICT (trade_id, instrument) DO UPDATE instead of DO NOTHING.
InsertTradeUpdate(table, t) ==
    {r \in table : ~(r.trade_id = t.trade_id /\ r.instrument = t.instrument_name)}
        \cup {TradeRow(t)}

InsertTrade(table, t) ==
    IF \E r \in table : r.trade_id = t.trade_id /\ r.instrument = t.instrument_name
    THEN table
    ELSE table \cup {TradeRow(t)}

\* conn.executemany(query, rows): the statement once per row, in order, in
\* one transaction.
RECURSIVE ExecuteManyQuotes(_, _)
ExecuteManyQuotes(table, rows) ==
    IF rows = <<>> THEN table
    ELSE ExecuteManyQuotes(UpsertQuote(table, Head(rows)), Tail(rows))

RECURSIVE ExecuteManyTrades(_, _)
ExecuteManyTrades(table, rows) ==
    IF rows = <<>> THEN table
    ELSE ExecuteManyTrades(InsertTrade(table, Head(rows)), Tail(rows))

\* range(0, len(rows), batch_size): the number of sub-batches.
NumBatches(rows, size) == (Len(rows) + size - 1) \div size

\* rows[i:i + batch_size] for the k-th sub-batch, k = 1, 2, ...
SubBatch(rows, size, k) ==
    SubSeq(rows, (k - 1) * size + 1, Min(k * size, Len(rows)))

\* write_quotes / write_trades loop over the sub-batches; _write_*_batch
\* commits a sub-batch on one of its max_retries attempts or, when every
\* attempt fails, raises, which ends the loop.  failAt is the sub-batch whose
\* attempts all fail (0: none).
RECURSIVE WriteQuoteBatches(_, _, _, _, _)
WriteQuoteBatches(table, rows, size, k, failAt) ==
    IF k > NumBatches(rows, size) \/ k = failAt THEN table
    ELSE WriteQuoteBatches(ExecuteManyQuotes(table, SubBatch(rows, size, k)),
                           rows, size, k + 1, failAt)

RECURSIVE WriteTradeBatches(_, _, _, _, _)
WriteTradeBatches(table, rows, size, k, failAt) ==
    IF k > NumBatches(rows, size) \/ k = failAt THEN table
    ELSE WriteTradeBatches(ExecuteManyTrades(table, SubBatch(rows, size, k)),
                           rows, size, k + 1, failAt)

\* The rows of the sub-batches that were committed.
Committed(rows, size, failAt) ==
    IF failAt = 0 THEN rows ELSE SubSeq(rows, 1, Min((failAt - 1) * size, Len(rows)))

\* History: the last non-null value handed in for each column of each key.
RECURSIVE NoteNonNull(_, _)
NoteNonNull(h, rows) ==
    IF rows = <<>> THEN h
    ELSE LET q == Head(rows)
             k == <<q.timestamp, q.instrument_name>>
         IN NoteNonNull(
                [h EXCEPT ![k] = [written |-> TRUE,
                                  cols |-> [c \in QuoteCols |->
                                      IF q.cols[c] # NULL THEN q.cols[c]
                                      ELSE h[k].cols[c]]]],
                Tail(rows))

BatchSizes == {1, 2}

WriterIdle ==
    /\ quotesTable = {}
    /\ tradesTable = {}
    /\ batch_size = 1
    /\ lastNonNull = [k \in QuoteKeys |->
          [written |-> FALSE, cols |-> [c \in QuoteCols |-> NULL]]]

WriterInit ==
    /\ quotesTable = {}
    /\ tradesTable = {}
    /\ batch_size \in BatchSizes
    /\ lastNonNull = [k \in QuoteKeys |->
          [written |-> FALSE, cols |-> [c \in QuoteCols |-> NULL]]]

write_quotes(rows, failAt) ==
    /\ quotesTable' = WriteQuoteBatches(quotesTable, rows, batch_size, 1, failAt)
    /\ lastNonNull' = NoteNonNull(lastNonNull, Committed(rows, batch_size, failAt))
    /\ UNCHANGED <<tradesTable, batch_size>>

write_trades(rows, failAt) ==
    /\ tradesTable' = WriteTradeBatches(tradesTable, rows, batch_size, 1, failAt)
    /\ UNCHANGED <<quotesTable, batch_size, lastNonNull>>

WriteQuotes ==
    /\ \E rows \in Lists(QuoteInputs) :
          \E failAt \in 0..NumBatches(rows, batch_size) : write_quotes(rows, failAt)
    /\ UNCHANGED exceptWriter

WriteTrades ==
    /\ \E rows \in Lists(TradeInputs) :
          \E failAt \in 0..NumBatches(rows, batch_size) : write_trades(rows, failAt)
    /\ UNCHANGED exceptWriter

WriterNext == WriteQuotes \/ WriteTrades

(***************************************************************************)
(* partition_instruments.                                                  *)
(***************************************************************************)
PartNames == {"ETH-A", "ETH-B", "ETH-C"}

\* The instrument dicts of the catalog.  expiration_timestamp is in seconds
\* here (the exchange gives milliseconds); every option carries one.
InstrumentDict(n) == [instrument_name |-> n, expiration_timestamp |-> 1762761600]

\* [inst['instrument_name'] for inst in instruments]
InstrumentNames(instruments) ==
    [i \in DOMAIN instruments |-> instruments[i].instrument_name]

\* A slice that stops one element early.
SliceOneShort(names, i, n) == SubSeq(names, i + 1, Min(i + n - 1, Len(names)))

\* instrument_names[i:i + max_per_partition], i counted from 0
Slice(names, i, n) == SubSeq(names, i + 1, Min(i + n, Len(names)))

\* for i in range(0, len(instrument_names), max_per_partition): append slice
RECURSIVE PartitionFrom(_, _, _)
PartitionFrom(names, i, max_per_partition) ==
    IF i >= Len(names) THEN <<>>
    ELSE <<Slice(names, i, max_per_partition)>>
             \o PartitionFrom(names, i + max_per_partition, max_per_partition)

partition_instruments(instruments, max_per_partition) ==
    PartitionFrom(InstrumentNames(instruments), 0, max_per_partition)

PartIdle ==
    /\ partArgs = [instruments |-> <<>>, max_per_partition |-> 1]
    /\ partRet = [done |-> FALSE, groups |-> <<>>]

PartInit ==
    /\ partArgs \in [instruments :
                        UNION {[1..k -> {InstrumentDict(n) : n \in PartNames}] :
                                  k \in 0..MaxPartLen},
                     max_per_partition : 1..MaxPartSize]
    /\ partRet = [done |-> FALSE, groups |-> <<>>]

CallPartition ==
    /\ ~partRet.done
    /\ partRet' = [done |-> TRUE,
                   groups |-> partition_instruments(partArgs.instruments,
                                                    partArgs.max_per_partition)]
    /\ UNCHANGED <<partArgs, exceptPart>>

PartNext == CallPartition

(***************************************************************************)
(* instrument_expiry_checker.  Instrument names are sequences of           *)
(* characters; times are seconds since 1970-01-01T00:00:00Z.               *)
(***************************************************************************)
UpperChars == {"A", "B", "C", "D", "E", "F", "G", "H", "I", "J", "K", "L", "M",
               "N", "O", "P", "Q", "R", "S", "T", "U", "V", "W", "X", "Y", "Z"}

DigitVal == [c \in {"0", "1", "2", "3", "4", "5", "6", "7", "8", "9"} |->
    CASE c = "0" -> 0 [] c = "1" -> 1 [] c = "2" -> 2 [] c = "3" -> 3 [] c = "4" -> 4
      [] c = "5" -> 5 [] c = "6" -> 6 [] c = "7" -> 7 [] c = "8" -> 8 [] OTHER -> 9]

DigitChars == DOMAIN DigitVal

MonthAbbr == << <<"J", "A", "N">>, <<"F", "E", "B">>, <<"M", "A", "R">>,
                <<"A", "P", "R">>, <<"M", "A", "Y">>, <<"J", "U", "N">>,
                <<"J", "U", "L">>, <<"A", "U", "G">>, <<"S", "E", "P">>,
                <<"O", "C", "T">>, <<"N", "O", "V">>, <<"D", "E", "C">> >>

NoMatch == <<>>

\* Whether every character of s[a..b] is in set S (and the range is in s).
AllIn(s, a, b, S) == b <= Len(s) /\ \A i \in a..b : s[i] \in S

\* The number of leading characters of s that are in S.
RECURSIVE LeadingIn(_, _)
LeadingIn(s, S) ==
    IF s # <<>> /\ Head(s) \in S THEN 1 + LeadingIn(Tail(s), S) ELSE 0

\* re.match(r'[A-Z]+-(\d{1,2}[A-Z]{3}\d{2})-', name).group(1), or NoMatch.
\* p is the end of the currency, nd the number of day digits.
DateGroup(name) ==
    LET p == LeadingIn(name, UpperChars)
        rest == SubSeq(name, p + 2, Len(name))
        nd == LeadingIn(rest, DigitChars)
    IN IF /\ p >= 1
          /\ Len(name) >= p + 1
          /\ name[p + 1] = "-"
          /\ nd \in {1, 2}
          /\ AllIn(rest, nd + 1, nd + 3, UpperChars)
          /\ AllIn(rest, nd + 4, nd + 5, DigitChars)
          /\ Len(rest) >= nd + 6
          /\ rest[nd + 6] = "-"
       THEN SubSeq(rest, 1, nd + 5)
       ELSE NoMatch

IsLeap(y) == (y % 4 = 0 /\ y % 100 # 0) \/ y % 400 = 0

DaysInMonth(y, m) ==
    IF m = 2 THEN (IF IsLeap(y) THEN 29 ELSE 28)
    ELSE IF m \in {4, 6, 9, 11} THEN 30 ELSE 31

\* Days from 1970-01-01 to the civil date y-m-d.
DaysFromCivil(y, m, d) ==
    LET yy == IF m <= 2 THEN y - 1 ELSE y
        era == yy \div 400
        yoe == yy - era * 400
        mp == IF m > 2 THEN m - 3 ELSE m + 9
        doy == (153 * mp + 2) \div 5 + d - 1
        doe == yoe * 365 + yoe \div 4 - yoe \div 100 + doy
    IN era * 146097 + doe - 719468

NoDate == <<>>

\* datetime.strptime(date_str, '%d%b%y') as <<year, month, day>>, or NoDate
\* where it raises ValueError.  %d takes 1..31 (with or without a leading
\* zero), %b a month abbreviation, %y two digits (69..99 -> 19xx, 00..68 -> 20xx).
Strptime(date_str) ==
    LET nd == Len(date_str) - 5
        day == IF nd = 1 THEN DigitVal[date_str[1]]
               ELSE 10 * DigitVal[date_str[1]] + DigitVal[date_str[2]]
        mon == SubSeq(date_str, nd + 1, nd + 3)
        y2 == 10 * DigitVal[date_str[nd + 4]] + DigitVal[date_str[nd + 5]]
        year == IF y2 <= 68 THEN 2000 + y2 ELSE 1900 + y2
        months == {m \in 1..12 : MonthAbbr[m] = mon}
    IN IF months = {} \/ day < 1 THEN NoDate
       ELSE LET m == CHOOSE x \in months : TRUE
            IN IF day > DaysInMonth(year, m) THEN NoDate ELSE <<year, m, day>>

NoExpiry == 0 - 1

\* parse_expiry_from_instrument: 08:00 UTC on the expiry date, or NoExpiry (None).
parse_expiry_from_instrument(name) ==
    IF DateGroup(name) = NoMatch THEN NoExpiry
    ELSE LET date == Strptime(DateGroup(name))
         IN IF date = NoDate THEN NoExpiry
            ELSE DaysFromCivil(date[1], date[2], date[3]) * 86400 + 8 * 3600

\* A comparison that excludes the boundary instant.
ExpiredStrictlyAfter(name, buffer_minutes, now) ==
    LET expiry == parse_expiry_from_instrument(name)
    IN IF expiry = NoExpiry THEN FALSE
       ELSE now > expiry + buffer_minutes * 60

\* is_instrument_expired, with the clock reading now
is_instrument_expired(name, buffer_minutes, now) ==
    LET expiry == parse_expiry_from_instrument(name)
    IN IF expiry = NoExpiry THEN FALSE
       ELSE now >= expiry + buffer_minutes * 60

\* filter_expired_instruments
filter_expired_instruments(instruments, buffer_minutes, now) ==
    SelectSeq(instruments, LAMBDA inst : ~is_instrument_expired(inst, buffer_minutes, now))

\* ---- inputs
Chars(ccy) ==
    CASE ccy = "ETH" -> <<"E", "T", "H">>
      [] ccy = "BTC" -> <<"B", "T", "C">>
      [] OTHER -> <<"S", "O", "L", "_", "U", "S", "D", "C">>

DaySamples == {<<"1">>, <<"0", "7">>, <<"1", "0">>, <<"2", "9">>, <<"3", "1">>,
               <<"0", "0">>, <<"3", "2">>}

MonthSamples == {2, 11, 12}

YearSamples == {<<"2", "4">>, <<"2", "5">>}

DayNumber(dd) ==
    IF Len(dd) = 1 THEN DigitVal[dd[1]] ELSE 10 * DigitVal[dd[1]] + DigitVal[dd[2]]

\* The option name CCY-DDMMMYY-STRIKE-T together with the date it names
\* (NoDate when the currency is not upper-case letters or the date is not a
\* calendar date).
OptionName(ccy, dd, m, yy, type) ==
    LET y == 2000 + DayNumber(yy)
        d == DayNumber(dd)
    IN [name |-> Chars(ccy) \o <<"-">> \o dd \o MonthAbbr[m] \o yy \o <<"-">>
                    \o <<"3", "1", "0", "0">> \o <<"-", type>>,
        named |-> IF ccy \in {"ETH", "BTC"} /\ d >= 1 /\ d <= DaysInMonth(y, m)
                  THEN <<y, m, d>> ELSE NoDate]

\* Names that are not of the option form.
OtherNames ==
    {[name |-> <<"E", "T", "H", "-", "P", "E", "R", "P", "E", "T", "U", "A", "L">>,
      named |-> NoDate],
     [name |-> <<>>, named |-> NoDate],
     [name |-> <<"E", "T", "H", "-", "1", "0", "X", "Y", "Z", "2", "5", "-", "1", "-", "C">>,
      named |-> NoDate]}

ExpiryNames ==
    {OptionName(ccy, dd, m, yy, type) :
        ccy \in {"ETH", "BTC", "SOL_USDC"}, dd \in DaySamples, m \in MonthSamples,
        yy \in YearSamples, type \in {"C", "P"}}
    \cup OtherNames

\* 08:00 UTC of a date, computed from the date.
Settlement(date) == DaysFromCivil(date[1], date[2], date[3]) * 86400 + 8 * 3600

BufferSamples == {0, 5}

\* Clock readings around the settlement of two of the dates, and around
\* those moments plus five minutes.
NowSamples ==
    {Settlement(date) + off :
        date \in {<<2025, 11, 10>>, <<2024, 2, 29>>},
        off \in {0 - 1, 0, 299, 300}}

ExpIdle ==
    /\ expArgs = [name |-> <<>>, named |-> NoDate, buffer_minutes |-> 5, now |-> 0]
    /\ expRet = [done |-> FALSE, expired |-> FALSE, kept |-> <<>>]

ExpInit ==
    /\ \E n \in ExpiryNames : \E b \in BufferSamples : \E t \in NowSamples :
          expArgs = [name |-> n.name, named |-> n.named, buffer_minutes |-> b, now |-> t]
    /\ expRet = [done |-> FALSE, expired |-> FALSE, kept |-> <<>>]

CallExpiry ==
    /\ ~expRet.done
    /\ expRet' = [done |-> TRUE,
                  expired |-> is_instrument_expired(expArgs.name, expArgs.buffer_minutes,
                                                    expArgs.now),
                  kept |-> filter_expired_instruments(<<expArgs.name>>,
                                                      expArgs.buffer_minutes, expArgs.now)]
    /\ UNCHANGED <<expArgs, exceptExp>>

ExpNext == CallExpiry

(***************************************************************************)
(* The exchange's option catalog and the collector processes.              *)
(***************************************************************************)
\* The options of the currency in the order the exchange lists them.
Universe == <<"ETH-A", "ETH-B", "ETH-C">>

Instruments == Range(Universe)

ConnectionIds == {0, 1}

\* fetch_all_options followed by the orchestrator's filter_expired_instruments:
\* the instrument dicts that are active and more than five minutes from expiry.
ActiveOptions(ex) ==
    LET names == SelectSeq(Universe, LAMBDA n : ex[n] = "live")
    IN [i \in DOMAIN names |-> InstrumentDict(names[i])]

\* f"ticker.{instrument}.100ms", f"trades.{instrument}.100ms"
Channels(instrument) == {<<"ticker", instrument>>, <<"trades", instrument>>}

NewCollector == [started |-> FALSE, instruments |-> <<>>, ws |-> FALSE,
                 subscribed_channels |-> {}]

NoCall == [op |-> "none", request |-> <<>>, status |-> 0, done |-> <<>>,
           already |-> <<>>, failed |-> <<>>, total_instruments |-> 0,
           sizeBefore |-> 0, repeated |-> {}, afterFailure |-> {}]

NeverSubscribed == [n \in Instruments |-> "no"]

\* What the WebSocket does with one subscribe or unsubscribe message: it
\* answers with a result, the send or the wait for the answer raises, or the
\* frame received carries neither a result nor an error.
WsOutcomes == {"result", "error", "other"}

\* The list left untouched.
AppendNothing(owned, instrument) == owned

\* self.collector.instruments.append(instrument)
AppendInstrument(owned, instrument) == Append(owned, instrument)

\* The list left as it is by the unsubscribe handler.
RemoveNothing(owned, instrument) == owned

\* self.collector.instruments.remove(instrument): the first occurrence goes
RECURSIVE RemoveInstrument(_, _)
RemoveInstrument(owned, instrument) ==
    IF owned = <<>> THEN <<>>
    ELSE IF Head(owned) = instrument THEN Tail(owned)
    ELSE <<Head(owned)>> \o RemoveInstrument(Tail(owned), instrument)

EmptyResponse == [done |-> <<>>, already |-> <<>>, failed |-> <<>>]

\* The loop of handle_subscribe over the request; outcomes[i] is what the
\* WebSocket does for the i-th instrument when one is attached.  In the
\* response done stands for 'subscribed', already for 'already_subscribed'.
RECURSIVE SubscribeLoop(_, _, _, _)
SubscribeLoop(col, resp, request, outcomes) ==
    IF request = <<>> THEN [col |-> col, resp |-> resp]
    ELSE LET x == Head(request)
             appended == [col EXCEPT !.instruments = AppendInstrument(@, x)]
             next == IF x \in Range(col.instruments)
                     THEN [col |-> col,
                           resp |-> [resp EXCEPT !.already = Append(@, x)]]
                     ELSE IF col.ws /\ Head(outcomes) = "error"
                     THEN [col |-> appended,
                           resp |-> [resp EXCEPT !.failed = Append(@, x)]]
                     ELSE IF col.ws /\ Head(outcomes) = "result"
                     THEN [col |-> [appended EXCEPT !.subscribed_channels =
                                                        @ \cup Channels(x)],
                           resp |-> [resp EXCEPT !.done = Append(@, x)]]
                     ELSE [col |-> appended,
                           resp |-> [resp EXCEPT !.done = Append(@, x)]]
         IN SubscribeLoop(next.col, next.resp, Tail(request), Tail(outcomes))

\* The loop of handle_unsubscribe; done stands for 'unsubscribed', already
\* for 'not_found'.
RECURSIVE UnsubscribeLoop(_, _, _, _)
UnsubscribeLoop(col, resp, request, outcomes) ==
    IF request = <<>> THEN [col |-> col, resp |-> resp]
    ELSE LET x == Head(request)
             removed == [col EXCEPT !.instruments = RemoveInstrument(@, x)]
             next == IF x \notin Range(col.instruments)
                     THEN [col |-> col,
                           resp |-> [resp EXCEPT !.already = Append(@, x)]]
                     ELSE IF col.ws /\ Head(outcomes) = "error"
                     THEN [col |-> removed,
                           resp |-> [resp EXCEPT !.failed = Append(@, x)]]
                     ELSE IF col.ws /\ Head(outcomes) = "result"
                     THEN [col |-> [removed EXCEPT !.subscribed_channels =
                                                       @ \ Channels(x)],
                           resp |-> [resp EXCEPT !.done = Append(@, x)]]
                     ELSE [col |-> removed,
                           resp |-> [resp EXCEPT !.done = Append(@, x)]]
         IN UnsubscribeLoop(next.col, next.resp, Tail(request), Tail(outcomes))

\* The record of one control API call kept in lastCall: the request, the
\* response, the length of the instrument list before the call, and the
\* names of the request that an earlier subscribe call named (repeated),
\* among them those that the earlier response listed as failed.
CallRecord(op, request, status, resp, col, sizeBefore, before) ==
    [op |-> op, request |-> request, status |-> status, done |-> resp.done,
     already |-> resp.already, failed |-> resp.failed,
     total_instruments |-> Len(col.instruments),
     sizeBefore |-> sizeBefore,
     repeated |-> {x \in Range(request) : before[x] # "no"},
     afterFailure |-> {x \in Range(request) : before[x] = "failed"}]

\* Where a response put instrument x.
Disposition(resp, x) ==
    IF x \in Range(resp.failed) THEN "failed"
    ELSE IF x \in Range(resp.done) THEN "done"
    ELSE "already"

\* POST /api/subscribe on a collector in state col, whose history of
\* subscribed names is before: the collector, the call record and the
\* history afterwards.  An empty request is answered 400.
handle_subscribe(col, before, request, outcomes) ==
    LET out == SubscribeLoop(col, EmptyResponse, request, outcomes)
    IN IF request = <<>>
       THEN [col |-> col, before |-> before,
             call |-> CallRecord("subscribe", request, 400, EmptyResponse, col,
                                 Len(col.instruments), NeverSubscribed)]
       ELSE [col |-> out.col,
             before |-> [x \in Instruments |->
                            IF x \in Range(request) THEN Disposition(out.resp, x)
                            ELSE before[x]],
             call |-> CallRecord("subscribe", request, 200, out.resp, out.col,
                                 Len(col.instruments), before)]

\* POST /api/unsubscribe
handle_unsubscribe(col, before, request, outcomes) ==
    LET out == UnsubscribeLoop(col, EmptyResponse, request, outcomes)
    IN IF request = <<>>
       THEN [col |-> col, before |-> before,
             call |-> CallRecord("unsubscribe", request, 400, EmptyResponse, col,
                                 Len(col.instruments), NeverSubscribed)]
       ELSE [col |-> out.col,
             before |-> [x \in Instruments |->
                            IF x \in Range(request) THEN "no" ELSE before[x]],
             call |-> CallRecord("unsubscribe", request, 200, out.resp, out.col,
                                 Len(col.instruments), NeverSubscribed)]

\* The orchestrator's main() on connection id c: the partition c of the
\* active options becomes collector.instruments and the control API comes
\* up.  With no partition c, get_partition_for_connection raises ValueError
\* and the process exits before it owns anything.
StartCollector(c) ==
    LET partitions == partition_instruments(ActiveOptions(exchange), MaxPerPartition)
    IN /\ ~collectors[c].started
       /\ c < Len(partitions)
       /\ collectors' = [collectors EXCEPT ![c] =
              [@ EXCEPT !.started = TRUE, !.instruments = partitions[c + 1]]]
       /\ UNCHANGED <<exchange, lastCall, subscribedBefore>>

\* One pass of _websocket_loop up to the answer to _subscribe_to_instruments:
\* self.ws is set, and a result replaces subscribed_channels.
Connect(c, outcome) ==
    /\ collectors[c].started
    /\ collectors' = [collectors EXCEPT ![c] =
           [@ EXCEPT !.ws = TRUE,
                     !.subscribed_channels =
                         IF outcome = "result"
                         THEN UNION {Channels(x) : x \in Range(collectors[c].instruments)}
                         ELSE @]]
    /\ UNCHANGED <<exchange, lastCall, subscribedBefore>>

\* Requests a client of the control API sends, and the collector it talks
\* to: lists of up to two names, of the instrument of the first partition
\* and of one not listed at startup.
Requests == UNION {[1..k -> {"ETH-A", "ETH-C"}] : k \in {0, 1, 2}}

ClientTargets == {0}

OutcomeLists(request) == [DOMAIN request -> WsOutcomes]

FleetIdle ==
    /\ exchange = [n \in Instruments |-> "future"]
    /\ collectors = [c \in ConnectionIds |-> NewCollector]
    /\ lastCall = [c \in ConnectionIds |-> NoCall]
    /\ subscribedBefore = [c \in ConnectionIds |-> NeverSubscribed]

FleetInit ==
    /\ exchange = [n \in Instruments |-> IF n = "ETH-C" THEN "future" ELSE "live"]
    /\ collectors = [c \in ConnectionIds |-> NewCollector]
    /\ lastCall = [c \in ConnectionIds |-> NoCall]
    /\ subscribedBefore = [c \in ConnectionIds |-> NeverSubscribed]

Start == \E c \in ConnectionIds : StartCollector(c) /\ UNCHANGED exceptCollectors

WsConnect ==
    \E c \in ConnectionIds : \E o \in WsOutcomes : Connect(c, o) /\ UNCHANGED exceptCollectors

\* A client's POST /api/subscribe; the API answers once the process is up.
ApiSubscribe ==
    \E c \in ClientTargets : \E request \in Requests :
        \E outcomes \in OutcomeLists(request) :
            LET out == handle_subscribe(collectors[c], subscribedBefore[c],
                                        request, outcomes)
            IN /\ collectors[c].started
               /\ collectors' = [collectors EXCEPT ![c] = out.col]
               /\ lastCall' = [lastCall EXCEPT ![c] = out.call]
               /\ subscribedBefore' = [subscribedBefore EXCEPT ![c] = out.before]
               /\ UNCHANGED <<exchange, exceptCollectors>>

ApiUnsubscribe ==
    \E c \in ClientTargets : \E request \in Requests :
        \E outcomes \in OutcomeLists(request) :
            LET out == handle_unsubscribe(collectors[c], subscribedBefore[c],
                                          request, outcomes)
            IN /\ collectors[c].started
               /\ collectors' = [collectors EXCEPT ![c] = out.col]
               /\ lastCall' = [lastCall EXCEPT ![c] = out.call]
               /\ subscribedBefore' = [subscribedBefore EXCEPT ![c] = out.before]
               /\ UNCHANGED <<exchange, exceptCollectors>>

ControlApiNext == Start \/ WsConnect \/ ApiSubscribe \/ ApiUnsubscribe

(***************************************************************************)
(* The exchange lists and expires options; the lifecycle manager follows.  *)
(***************************************************************************)
ExchangeList ==
    \E n \in Instruments :
        /\ exchange[n] = "future"
        /\ exchange' = [exchange EXCEPT ![n] = "live"]
        /\ UNCHANGED <<collectors, lastCall, subscribedBefore, mgrVars, exceptFleet>>

\* The options nearest to their settlement.
NearestExpiry == {"ETH-A"}

\* The option settles, or comes within the expiry buffer of settling.
ExchangeExpire ==
    \E n \in NearestExpiry :
        /\ exchange[n] = "live"
        /\ exchange' = [exchange EXCEPT ![n] = "expired"]
        /\ UNCHANGED <<collectors, lastCall, subscribedBefore, mgrVars, exceptFleet>>

NoCycle == [T |-> {}, A |-> {}, done |-> FALSE, dbFailed |-> FALSE,
            expired |-> [n \in Instruments |-> 0],
            listed |-> [n \in Instruments |-> 0]]

\* _extract_instrument_metadata, each value by its Python type: expiry_date
\* is a datetime when the dict has an expiration_timestamp.
_extract_instrument_metadata(inst_details) ==
    [instrument_type |-> "str", strike_price |-> "float",
     expiry_date |-> IF inst_details.expiration_timestamp # 0
                     THEN "datetime" ELSE "NoneType",
     option_type |-> "str"]

\* details of an instrument_expired event: {'expired_at': isoformat()}
ExpiredDetails == [expired_at |-> "str"]

\* Whether json.dumps(details) returns; it raises TypeError on a datetime.
JsonDumps(details) == \A k \in DOMAIN details : details[k] # "datetime"

\* What a POST to a collector's control API meets: no answer or a non-200
\* answer ("down"), or the handler runs with the given WebSocket outcome.
RpcOutcomes == {"down"} \cup WsOutcomes

Answers(c, rpc) == collectors[c].started /\ rpc[c] # "down"

\* _subscribe_to_collectors: the POST goes to every collector endpoint.
\* The collectors afterwards.
_subscribe_to_collectors(instrument_name, rpc) ==
    [c \in ConnectionIds |->
        IF Answers(c, rpc)
        THEN handle_subscribe(collectors[c], NeverSubscribed,
                              <<instrument_name>>, <<rpc[c]>>).col
        ELSE collectors[c]]

\* _unsubscribe_from_collectors
_unsubscribe_from_collectors(instrument_name, rpc) ==
    [c \in ConnectionIds |->
        IF Answers(c, rpc)
        THEN handle_unsubscribe(collectors[c], NeverSubscribed,
                                <<instrument_name>>, <<rpc[c]>>).col
        ELSE collectors[c]]

\* _sync_instruments up to the diff.  A failed fetch or query raises and
\* ends the cycle.
_sync_instruments(fetched) ==
        LET active_instruments == ActiveOptions(exchange)
            active_set == Range(InstrumentNames(active_instruments))
            tracked_set == {n \in Instruments : instrument_metadata[n] = "active"}
        IN /\ mgrPc = "idle"
           /\ syncs' = syncs + 1
           /\ IF fetched
              THEN /\ mgrPc' = "sync"
                   /\ todoExpired' = tracked_set \ active_set
                   /\ todoNew' = SelectSeq(active_instruments,
                          LAMBDA inst : inst.instrument_name \in active_set \ tracked_set)
                   /\ cycle' = [NoCycle EXCEPT !.T = tracked_set, !.A = active_set]
              ELSE /\ cycle' = NoCycle
                   /\ UNCHANGED <<mgrPc, todoExpired, todoNew>>
           /\ UNCHANGED <<instrument_metadata, fleetVars, exceptSync>>

SyncStart ==
    \E fetched \in BOOLEAN :
        syncs < MaxSyncs /\ _sync_instruments(fetched) /\ UNCHANGED auditVars

\* _log_lifecycle_event: the row is inserted unless json.dumps(details) or
\* the database call raises; either exception is swallowed.
Logged(events, instrument, details, dbOk) ==
    IF dbOk /\ JsonDumps(details)
    THEN [events EXCEPT ![instrument] = @ + 1]
    ELSE events

NoDetails == [none |-> "NoneType"]

\* What the log keeps of the cycles before: whether the last one ended with
\* every database operation done, its active set, and the instruments whose
\* subscribe or unsubscribe RPC no collector has answered with 200 so far.
NoPrev == [ok |-> FALSE, A |-> {}, unanswered |-> {}]

NoRpcLog == [posted |-> {}, failedRpc |-> {}, failedEvents |-> {},
             reportedFailed |-> {}, counted |-> {}, last_seen |-> {},
             prev |-> NoPrev]

\* The instruments of the log h that were posted and that no collector
\* counted.
Unanswered(h) ==
    {n \in Instruments :
        (\E c \in ConnectionIds : <<n, c>> \in h.posted)
            /\ \A c \in ConnectionIds : <<n, c>> \notin h.counted}

\* An UPDATE that changes no row.
MarkNothing(table, instrument_name) == table

\* _mark_instrument_expired: UPDATE ... SET is_active = FALSE
_mark_instrument_expired(table, instrument_name) ==
    [table EXCEPT ![instrument_name] = "inactive"]

\* A for loop over self.collector_endpoints that ends at the first endpoint
\* that does not answer 200.
EndpointsUntilFailure(rpc) ==
    {c \in ConnectionIds : \A d \in ConnectionIds : d < c => Answers(d, rpc)}

\* The for loop over self.collector_endpoints of _subscribe_to_collectors
\* and _unsubscribe_from_collectors: the try inside the loop keeps it going
\* past an endpoint that fails.
EndpointsPosted(rpc) == ConnectionIds

\* What one call of _subscribe_to_collectors (op "subscribe") or of
\* _unsubscribe_from_collectors adds to the log h: the endpoints posted to,
\* those that answered other than 200 or raised (failedRpc) and the
\* subscription_added / subscription_removed rows with success=False and
\* their collector_id (failedEvents), the endpoints whose 200 answer listed
\* the instrument under 'failed' (reportedFailed), and the endpoints that
\* went into success_count (counted).
RpcHistory(h, op, instrument_name, rpc, dbOk) ==
    LET posted == EndpointsPosted(rpc)
        refused == {c \in posted : ~Answers(c, rpc)}
        call(c) == IF op = "subscribe"
                   THEN handle_subscribe(collectors[c], NeverSubscribed,
                                         <<instrument_name>>, <<rpc[c]>>).call
                   ELSE handle_unsubscribe(collectors[c], NeverSubscribed,
                                           <<instrument_name>>, <<rpc[c]>>).call
        Rows(cs) == {<<instrument_name, c>> : c \in cs}
    IN [h EXCEPT !.posted = @ \cup Rows(posted),
                 !.failedRpc = @ \cup Rows(refused),
                 !.failedEvents = @ \cup (IF dbOk THEN Rows(refused) ELSE {}),
                 !.reportedFailed = @ \cup
                     Rows({c \in posted \ refused : call(c).failed # <<>>}),
                 !.counted = @ \cup Rows(posted \ refused)]

\* One iteration of the loop of _handle_expired_instruments.
_handle_expired_instruments(instrument, markOk, logOk, rpc) ==
            /\ mgrPc = "sync"
            /\ todoExpired' = todoExpired \ {instrument}
            /\ IF markOk
               THEN /\ instrument_metadata' =
                           _mark_instrument_expired(instrument_metadata, instrument)
                    /\ collectors' = _unsubscribe_from_collectors(instrument, rpc)
                    /\ cycle' = [cycle EXCEPT
                           !.expired = Logged(@, instrument, ExpiredDetails, logOk),
                           !.dbFailed = @ \/ ~logOk]
               ELSE /\ cycle' = [cycle EXCEPT
                           !.expired = Logged(@, instrument, NoDetails, logOk),
                           !.dbFailed = TRUE]
                    /\ UNCHANGED <<instrument_metadata, collectors>>
            /\ UNCHANGED <<exchange, lastCall, subscribedBefore, mgrPc, todoNew, syncs,
                           exceptSync>>

HandleExpired ==
    \E instrument \in todoExpired : \E markOk, logOk \in BOOLEAN :
        \E rpc \in [ConnectionIds -> RpcOutcomes] :
            /\ _handle_expired_instruments(instrument, markOk, logOk, rpc)
            /\ UNCHANGED auditVars

\* One iteration of the loop of _handle_new_instruments.
_handle_new_instruments(addOk, logOk, rpc) ==
        /\ mgrPc = "sync"
        /\ todoExpired = {}
        /\ todoNew # <<>>
        /\ LET inst_details == Head(todoNew)
               instrument_name == inst_details.instrument_name
               metadata == _extract_instrument_metadata(inst_details)
           IN IF addOk
              THEN /\ instrument_metadata' =
                          [instrument_metadata EXCEPT ![instrument_name] = "active"]
                   /\ collectors' = _subscribe_to_collectors(instrument_name, rpc)
                   /\ cycle' = [cycle EXCEPT
                          !.listed = Logged(@, instrument_name, metadata, logOk),
                          !.dbFailed = @ \/ ~logOk]
              ELSE /\ cycle' = [cycle EXCEPT
                          !.listed = Logged(@, instrument_name, NoDetails, logOk),
                          !.dbFailed = TRUE]
                   /\ UNCHANGED <<instrument_metadata, collectors>>
        /\ todoNew' = Tail(todoNew)
        /\ UNCHANGED <<exchange, lastCall, subscribedBefore, mgrPc, todoExpired, syncs,
                       exceptSync>>

HandleNew ==
    \E addOk, logOk \in BOOLEAN : \E rpc \in [ConnectionIds -> RpcOutcomes] :
        _handle_new_instruments(addOk, logOk, rpc) /\ UNCHANGED auditVars

\* The end of _sync_instruments: _update_last_seen(list(active_set)), which
\* touches no is_active.  When its UPDATE raises, the cycle ends in the
\* except clause of _sync_instruments.
_update_last_seen(updOk) ==
    /\ mgrPc = "sync"
    /\ todoExpired = {}
    /\ todoNew = <<>>
    /\ mgrPc' = "idle"
    /\ cycle' = [cycle EXCEPT !.done = TRUE, !.dbFailed = @ \/ ~updOk]
    /\ UNCHANGED <<instrument_metadata, todoExpired, todoNew, syncs, fleetVars,
                   exceptSync>>

SyncEnd == \E updOk \in BOOLEAN : _update_last_seen(updOk) /\ UNCHANGED auditVars

AuditIdle == rpcLog = NoRpcLog

MgrIdle ==
    /\ instrument_metadata = [n \in Instruments |-> "absent"]
    /\ mgrPc = "idle"
    /\ todoExpired = {}
    /\ todoNew = <<>>
    /\ syncs = 0
    /\ cycle = NoCycle

\* The manager starts against an empty instrument_metadata table, or against
\* the table an earlier run left with the options then live.
MgrInit ==
    /\ instrument_metadata \in
           {[n \in Instruments |-> "absent"],
            [n \in Instruments |-> IF n = "ETH-C" THEN "absent" ELSE "active"]}
    /\ mgrPc = "idle"
    /\ todoExpired = {}
    /\ todoNew = <<>>
    /\ syncs = 0
    /\ cycle = NoCycle

\* The same cycle with the subscription rows of lifecycle_events and the
\* last_seen_at update kept in rpcLog.
AuditStart ==
    \E fetched \in BOOLEAN :
        /\ syncs < MaxAuditSyncs
        /\ _sync_instruments(fetched)
        /\ rpcLog' = [NoRpcLog EXCEPT !.prev =
               [ok |-> cycle.done /\ ~cycle.dbFailed, A |-> cycle.A,
                unanswered |-> (rpcLog.prev.unanswered \cup Unanswered(rpcLog))
                                   \ {n \in Instruments :
                                         \E c \in ConnectionIds :
                                             <<n, c>> \in rpcLog.counted}]]

AuditExpired ==
    \E instrument \in todoExpired : \E markOk, logOk \in BOOLEAN :
        \E rpc \in [ConnectionIds -> RpcOutcomes] :
            /\ _handle_expired_instruments(instrument, markOk, logOk, rpc)
            /\ rpcLog' = IF markOk
                         THEN RpcHistory(rpcLog, "unsubscribe", instrument, rpc, logOk)
                         ELSE rpcLog

AuditNew ==
    \E addOk, logOk \in BOOLEAN : \E rpc \in [ConnectionIds -> RpcOutcomes] :
        /\ _handle_new_instruments(addOk, logOk, rpc)
        /\ rpcLog' = IF addOk
                     THEN RpcHistory(rpcLog, "subscribe",
                                     Head(todoNew).instrument_name, rpc, logOk)
                     ELSE rpcLog

AuditEnd ==
    \E updOk \in BOOLEAN :
        /\ _update_last_seen(updOk)
        /\ rpcLog' = [rpcLog EXCEPT !.last_seen = IF updOk THEN cycle.A ELSE @]

\* The first listing of the exchange: ETH-A and ETH-B live.
FirstListing == [n \in Instruments |-> IF n = "ETH-C" THEN "future" ELSE "live"]

\* The collectors the orchestrator started on the first listing.
StartedOnFirstListing ==
    LET partitions == partition_instruments(ActiveOptions(FirstListing), MaxPerPartition)
    IN [c \in ConnectionIds |->
           IF c < Len(partitions)
           THEN [NewCollector EXCEPT !.started = TRUE, !.instruments = partitions[c + 1]]
           ELSE NewCollector]

\* The exchange as the manager finds it: the first listing live, or its
\* nearest option expired and a third one listed.  The collectors are yet
\* to start, or have run since the first listing.
SyncInit ==
    /\ \/ /\ exchange = FirstListing
          /\ collectors = [c \in ConnectionIds |-> NewCollector]
       \/ /\ exchange = [n \in Instruments |-> IF n = "ETH-A" THEN "expired" ELSE "live"]
          /\ collectors \in {[c \in ConnectionIds |-> NewCollector],
                              StartedOnFirstListing}
    /\ lastCall = [c \in ConnectionIds |-> NoCall]
    /\ subscribedBefore = [c \in ConnectionIds |-> NeverSubscribed]
    /\ rpcLog = NoRpcLog

SyncNext ==
    \/ Start
    \/ WsConnect
    \/ AuditStart
    \/ AuditExpired
    \/ AuditNew
    \/ AuditEnd

FleetNext ==
    \/ Start
    \/ WsConnect
    \/ ExchangeList
    \/ ExchangeExpire
    \/ SyncStart
    \/ HandleExpired
    \/ HandleNew
    \/ SyncEnd

(***************************************************************************)
(* The WebSocket loop of a collector and its reconnection backoff.         *)
(***************************************************************************)
\* Doubling without the cap.
DoubledDelay(delay) == delay * 2

\* min(self.reconnect_delay * 2, self.max_reconnect_delay)
NextDelay(delay) == Min(delay * 2, max_reconnect_delay)

LoopIdle ==
    /\ running = FALSE
    /\ reconnect_delay = 1
    /\ loopPc = "exited"
    /\ connection_attempts = 0
    /\ failures = 0
    /\ slept = 0

\* start() has set running and created the loop's task.
LoopInit ==
    /\ running = TRUE
    /\ reconnect_delay = 1
    /\ loopPc = "loop"
    /\ connection_attempts = 0
    /\ failures = 0
    /\ slept = 0

\* while self.running: the next attempt begins, or the loop ends.
LoopTest ==
    /\ loopPc = "loop"
    /\ IF running
       THEN /\ connection_attempts < MaxAttempts
            /\ connection_attempts' = connection_attempts + 1
            /\ loopPc' = "connect"
       ELSE /\ loopPc' = "exited"
            /\ UNCHANGED connection_attempts
    /\ UNCHANGED <<running, reconnect_delay, failures, slept, exceptLoop>>

\* websockets.connect succeeded: self.reconnect_delay = 1.
ConnectOk ==
    /\ loopPc = "connect"
    /\ loopPc' = "session"
    /\ reconnect_delay' = 1
    /\ failures' = 0
    /\ UNCHANGED <<running, connection_attempts, slept, exceptLoop>>

\* A reconnect path that starts from an empty buffer.
ReconnectDropsBuffer ==
    /\ loopPc \in {"connect", "session"}
    /\ failures' = failures + 1
    /\ loopPc' = IF running THEN "sleep" ELSE "loop"
    /\ slept' = IF running THEN reconnect_delay ELSE slept
    /\ quotes' = <<>>
    /\ trades' = <<>>
    /\ depth' = <<>>
    /\ UNCHANGED <<running, reconnect_delay, connection_attempts, stats, lastDrain,
                   nextTick, returned, clearAllCalled, flushVars, exceptFlush>>

\* An exception out of the attempt or out of the session (connect,
\* _subscribe_to_instruments or _process_messages raised) enters
\* _handle_reconnect, which returns at once when the collector is stopping
\* and sleeps reconnect_delay seconds otherwise.
LoopException ==
    /\ loopPc \in {"connect", "session"}
    /\ failures' = failures + 1
    /\ IF running
       THEN /\ loopPc' = "sleep"
            /\ slept' = reconnect_delay
       ELSE /\ loopPc' = "loop"
            /\ UNCHANGED slept
    /\ UNCHANGED <<running, reconnect_delay, connection_attempts, exceptLoop>>

\* The sleep is over: the delay doubles up to the cap.
SleepDone ==
    /\ loopPc = "sleep"
    /\ reconnect_delay' = NextDelay(reconnect_delay)
    /\ loopPc' = "loop"
    /\ UNCHANGED <<running, connection_attempts, failures, slept, exceptLoop>>

\* The server closed the connection normally: _process_messages returns and
\* the loop goes round without a sleep.
SessionClosed ==
    /\ loopPc = "session"
    /\ loopPc' = "loop"
    /\ UNCHANGED <<running, reconnect_delay, connection_attempts, failures, slept,
                   exceptLoop>>

\* stop(): self.running = False
StopCollector ==
    /\ running
    /\ running' = FALSE
    /\ UNCHANGED <<reconnect_delay, loopPc, connection_attempts, failures, slept,
                   exceptLoop>>

LoopNext ==
    \/ LoopTest
    \/ ConnectOk
    \/ LoopException
    \/ SleepDone
    \/ SessionClosed
    \/ StopCollector

(***************************************************************************)
(* TickBuffer under threads.  Every public method of TickBuffer runs       *)
(* inside `with self._lock`; the methods are taken statement by statement  *)
(* so that threads interleave wherever the lock lets them.                 *)
(***************************************************************************)
\* add_* calls and get_and_clear calls the threads make at most.
MaxAdds == 3

MaxDrains == 2

Producers == {"p1", "p2"}

\* The kinds of tick the producer threads add.
AddedKinds == {"quotes", "trades"}

Consumer == "c"

Threads == Producers \cup {Consumer}

Free == "free"

NoLists == [quotes |-> <<>>, trades |-> <<>>, depth |-> <<>>]

\* A buffer whose methods would not take the lock.
LockIgnored(holder) == TRUE

\* threading.Lock: `with self._lock` is entered only while no thread holds it.
LockAvailable(holder) == holder = Free

Deque(kind) ==
    CASE kind = "quotes" -> quotes
      [] kind = "trades" -> trades
      [] OTHER -> depth

\* What deque.append discards: the oldest item of a deque at maxlen.
Discarded(dq, maxlen) ==
    IF maxlen = 0 \/ Len(dq) < maxlen THEN {} ELSE {Head(dq)}

ThreadIdle ==
    /\ lock = Free
    /\ tpc = [t \in Threads |-> "idle"]
    /\ adding = [p \in Producers |-> [kind |-> "quotes", tick |-> 0]]
    /\ local = NoLists
    /\ snap = NoLists
    /\ appendedTicks = {}
    /\ evicted = {}
    /\ contended = {}

ThreadInit == ThreadIdle

\* A producer thread calls add_quote, add_trade or add_depth.
CallAdd(p) ==
    /\ tpc[p] = "idle"
    /\ nextTick <= Min(MaxAdds, MaxTicks)
    /\ \E kind \in AddedKinds :
          adding' = [adding EXCEPT ![p] = [kind |-> kind, tick |-> nextTick]]
    /\ nextTick' = nextTick + 1
    /\ tpc' = [tpc EXCEPT ![p] = "with_lock"]
    /\ contended' = IF lock = Consumer THEN contended \cup {nextTick} ELSE contended
    /\ UNCHANGED <<quotes, trades, depth, stats, lastDrain, returned, clearAllCalled,
                   lock, local, snap, appendedTicks, evicted>>

\* with self._lock:
AcquireAdd(p) ==
    /\ tpc[p] = "with_lock"
    /\ LockAvailable(lock)
    /\ lock' = p
    /\ tpc' = [tpc EXCEPT ![p] = "append"]
    /\ UNCHANGED <<bufferVars, adding, local, snap, appendedTicks, evicted, contended>>

\* self._quotes.append(quote)
AppendAdd(p) ==
    /\ tpc[p] = "append"
    /\ LET kind == adding[p].kind
           tick == adding[p].tick
       IN /\ quotes' = IF kind = "quotes" THEN DequeAppend(quotes, MaxQuotes, tick)
                       ELSE quotes
          /\ trades' = IF kind = "trades" THEN DequeAppend(trades, MaxTrades, tick)
                       ELSE trades
          /\ depth' = IF kind = "depth" THEN DequeAppend(depth, MaxDepth, tick)
                      ELSE depth
          /\ appendedTicks' = appendedTicks \cup {tick}
          /\ evicted' = evicted \cup Discarded(Deque(kind), Capacity(kind))
    /\ tpc' = [tpc EXCEPT ![p] = "received"]
    /\ UNCHANGED <<stats, lastDrain, nextTick, returned, clearAllCalled,
                   lock, adding, local, snap, contended>>

\* self.quote_stats.ticks_received += 1, the utilization warning, and the
\* end of the with block.
ReleaseAdd(p) ==
    /\ tpc[p] = "received"
    /\ stats' = [stats EXCEPT ![adding[p].kind].ticks_received = @ + 1]
    /\ lock' = Free
    /\ tpc' = [tpc EXCEPT ![p] = "idle"]
    /\ UNCHANGED <<quotes, trades, depth, lastDrain, nextTick, returned, clearAllCalled,
                   adding, local, snap, appendedTicks, evicted, contended>>

\* The consumer thread calls get_and_clear.
CallDrain ==
    /\ tpc[Consumer] = "idle"
    /\ stats["quotes"].flushes_triggered < MaxDrains
    /\ tpc' = [tpc EXCEPT ![Consumer] = "with_lock"]
    /\ UNCHANGED <<bufferVars, lock, adding, local, snap, appendedTicks, evicted, contended>>

\* with self._lock:
AcquireDrain ==
    /\ tpc[Consumer] = "with_lock"
    /\ LockAvailable(lock)
    /\ lock' = Consumer
    /\ snap' = [quotes |-> quotes, trades |-> trades, depth |-> depth]
    /\ contended' = contended \cup {adding[p].tick : p \in {q \in Producers : tpc[q] = "with_lock"}}
    /\ tpc' = [tpc EXCEPT ![Consumer] = "list_quotes"]
    /\ UNCHANGED <<bufferVars, adding, local, appendedTicks, evicted>>

\* quotes = list(self._quotes)
ListQuotes ==
    /\ tpc[Consumer] = "list_quotes"
    /\ local' = [local EXCEPT !.quotes = quotes]
    /\ tpc' = [tpc EXCEPT ![Consumer] = "list_trades"]
    /\ UNCHANGED <<bufferVars, lock, adding, snap, appendedTicks, evicted, contended>>

\* trades = list(self._trades)
ListTrades ==
    /\ tpc[Consumer] = "list_trades"
    /\ local' = [local EXCEPT !.trades = trades]
    /\ tpc' = [tpc EXCEPT ![Consumer] = "list_depth"]
    /\ UNCHANGED <<bufferVars, lock, adding, snap, appendedTicks, evicted, contended>>

\* depth = list(self._depth)
ListDepth ==
    /\ tpc[Consumer] = "list_depth"
    /\ local' = [local EXCEPT !.depth = depth]
    /\ tpc' = [tpc EXCEPT ![Consumer] = "record_flush"]
    /\ UNCHANGED <<bufferVars, lock, adding, snap, appendedTicks, evicted, contended>>

\* The three get_*_utilization calls and the three record_flush calls.
RecordFlushes ==
    /\ tpc[Consumer] = "record_flush"
    /\ stats' = [k \in Kinds |->
          record_flush(stats[k], Len(local[k]), Utilization(Deque(k), Capacity(k)))]
    /\ tpc' = [tpc EXCEPT ![Consumer] = "clear_quotes"]
    /\ UNCHANGED <<quotes, trades, depth, lastDrain, nextTick, returned, clearAllCalled,
                   lock, adding, local, snap, appendedTicks, evicted, contended>>

\* self._quotes.clear()
ClearQuotes ==
    /\ tpc[Consumer] = "clear_quotes"
    /\ quotes' = <<>>
    /\ tpc' = [tpc EXCEPT ![Consumer] = "clear_trades"]
    /\ UNCHANGED <<trades, depth, stats, lastDrain, nextTick, returned, clearAllCalled,
                   lock, adding, local, snap, appendedTicks, evicted, contended>>

\* self._trades.clear()
ClearTrades ==
    /\ tpc[Consumer] = "clear_trades"
    /\ trades' = <<>>
    /\ tpc' = [tpc EXCEPT ![Consumer] = "clear_depth"]
    /\ UNCHANGED <<quotes, depth, stats, lastDrain, nextTick, returned, clearAllCalled,
                   lock, adding, local, snap, appendedTicks, evicted, contended>>

\* self._depth.clear()
ClearDepth ==
    /\ tpc[Consumer] = "clear_depth"
    /\ depth' = <<>>
    /\ tpc' = [tpc EXCEPT ![Consumer] = "return"]
    /\ UNCHANGED <<quotes, trades, stats, lastDrain, nextTick, returned, clearAllCalled,
                   lock, adding, local, snap, appendedTicks, evicted, contended>>

\* return quotes, trades, depth; the with block ends.
ReturnDrain ==
    /\ tpc[Consumer] = "return"
    /\ lastDrain' = local
    /\ returned' = [t \in DOMAIN returned |->
          IF t \in Range(local.quotes) \cup Range(local.trades) \cup Range(local.depth)
          THEN returned[t] + 1 ELSE returned[t]]
    /\ lock' = Free
    /\ tpc' = [tpc EXCEPT ![Consumer] = "idle"]
    /\ UNCHANGED <<quotes, trades, depth, stats, nextTick, clearAllCalled,
                   adding, local, snap, appendedTicks, evicted, contended>>

ThreadNext ==
    \/ \E p \in Producers : CallAdd(p) /\ UNCHANGED exceptThreads
    \/ \E p \in Producers : AcquireAdd(p) /\ UNCHANGED exceptThreads
    \/ \E p \in Producers : AppendAdd(p) /\ UNCHANGED exceptThreads
    \/ \E p \in Producers : ReleaseAdd(p) /\ UNCHANGED exceptThreads
    \/ CallDrain /\ UNCHANGED exceptThreads
    \/ AcquireDrain /\ UNCHANGED exceptThreads
    \/ ListQuotes /\ UNCHANGED exceptThreads
    \/ ListTrades /\ UNCHANGED exceptThreads
    \/ ListDepth /\ UNCHANGED exceptThreads
    \/ RecordFlushes /\ UNCHANGED exceptThreads
    \/ ClearQuotes /\ UNCHANGED exceptThreads
    \/ ClearTrades /\ UNCHANGED exceptThreads
    \/ ClearDepth /\ UNCHANGED exceptThreads
    \/ ReturnDrain /\ UNCHANGED exceptThreads

(***************************************************************************)
(* The flush loop of a collector: it sleeps flush_interval_sec seconds,    *)
(* then flushes when should_flush() holds or quotes or trades are          *)
(* buffered.  Ticks arrive from the WebSocket session while it sleeps.     *)
(***************************************************************************)
\* TickBuffer.should_flush
should_flush ==
    \/ Utilization(quotes, MaxQuotes) >= flush_threshold_pct
    \/ Utilization(trades, MaxTrades) >= flush_threshold_pct
    \/ Utilization(depth, MaxDepth) >= flush_threshold_pct

\* The condition of _flush_loop's if statement.
FlushCondition == should_flush \/ Len(quotes) > 0 \/ Len(trades) > 0

FlushIdle ==
    /\ flushPc = "exited"
    /\ elapsed = 0
    /\ flushed = {}
    /\ overdue = 0

\* start() has set running and created the task of _flush_loop, which is in
\* its first sleep.
FlushInit ==
    /\ flushPc = "sleep"
    /\ elapsed = 0
    /\ flushed = {}
    /\ overdue = 0

loopRest == <<reconnect_delay, loopPc, connection_attempts, failures, slept>>

\* _handle_quote_tick, _handle_trade_tick: a tick of the session is buffered.
TickArrives ==
    /\ running
    /\ add_quote \/ add_trade \/ add_depth
    /\ UNCHANGED <<flushVars, running, loopRest, exceptFlush>>

\* One second of asyncio.sleep(self.flush_interval_sec) passes.
FlushSecond ==
    /\ flushPc = "sleep"
    /\ elapsed < flush_interval_sec
    /\ elapsed' = elapsed + 1
    /\ overdue' = IF should_flush THEN overdue + 1 ELSE 0
    /\ UNCHANGED <<flushPc, flushed, bufferVars, running, loopRest, exceptFlush>>

\* _flush_buffers: get_and_clear, then the non-empty lists go to the writer.
_flush_buffers ==
    /\ get_and_clear
    /\ flushed' = flushed \cup Buffered

\* The sleep returns: the if statement, _flush_buffers when it holds, and the
\* loop's test of self.running.
FlushWake ==
    /\ flushPc = "sleep"
    /\ elapsed = flush_interval_sec
    /\ IF FlushCondition
       THEN _flush_buffers
       ELSE UNCHANGED <<bufferVars, flushed>>
    /\ elapsed' = 0
    /\ overdue' = 0
    /\ flushPc' = IF running THEN "sleep" ELSE "exited"
    /\ UNCHANGED <<running, loopRest, exceptFlush>>

FlushStop == StopCollector /\ UNCHANGED flushVars

FlushNext == TickArrives \/ FlushSecond \/ FlushWake \/ FlushStop

(***************************************************************************)
(* _write_quote_batch and _write_trade_batch: one sub-batch, written with  *)
(* up to max_retries attempts and an exponential backoff between them.     *)
(***************************************************************************)
\* Calls of _write_*_batch in one behaviour.
MaxBatchCalls == 2

NoBatch == [kind |-> "none", rows |-> <<>>]

\* The sub-batches handed to _write_quote_batch and _write_trade_batch.
SubBatches ==
    {[kind |-> "quotes", rows |-> <<q>>] : q \in QuoteInputs}
        \cup {[kind |-> "trades", rows |-> rows] : rows \in Lists(TradeInputs)}

\* delay = 2 ** attempt
BackoffDelay(n) == 2 ^ n

RetryIdle ==
    /\ retryPc = "idle"
    /\ attempt = 0
    /\ retryCall = NoBatch
    /\ failed_writes = 0
    /\ batchCalls = 0
    /\ attemptsMade = 0
    /\ sleeps = <<>>

RetryInit == RetryIdle

\* write_quotes / write_trades call _write_*_batch with a sub-batch; the for
\* loop starts with attempt = 0.
CallWriteBatch ==
    /\ retryPc \in {"idle", "returned", "raised"}
    /\ batchCalls < MaxBatchCalls
    /\ retryCall' \in SubBatches
    /\ batchCalls' = batchCalls + 1
    /\ attempt' = 0
    /\ attemptsMade' = 0
    /\ sleeps' = <<>>
    /\ retryPc' = "execute"
    /\ UNCHANGED <<failed_writes, writerVars, exceptRetry>>

\* pool.acquire and conn.executemany succeed: return len(batch).
AttemptCommits ==
    /\ retryPc = "execute"
    /\ attemptsMade' = attemptsMade + 1
    /\ IF retryCall.kind = "quotes"
       THEN /\ quotesTable' = ExecuteManyQuotes(quotesTable, retryCall.rows)
            /\ lastNonNull' = NoteNonNull(lastNonNull, retryCall.rows)
            /\ UNCHANGED tradesTable
       ELSE /\ tradesTable' = ExecuteManyTrades(tradesTable, retryCall.rows)
            /\ UNCHANGED <<quotesTable, lastNonNull>>
    /\ retryPc' = "returned"
    /\ UNCHANGED <<attempt, retryCall, failed_writes, batchCalls, sleeps, batch_size,
                   exceptRetry>>

\* pool.acquire or conn.executemany raises: the except branch sleeps
\* 2 ** attempt seconds when attempt < max_retries - 1, and otherwise counts
\* a failed write and re-raises.
AttemptFails ==
    /\ retryPc = "execute"
    /\ attemptsMade' = attemptsMade + 1
    /\ IF attempt < max_retries - 1
       THEN /\ sleeps' = Append(sleeps, BackoffDelay(attempt))
            /\ retryPc' = "sleep"
            /\ UNCHANGED failed_writes
       ELSE /\ failed_writes' = failed_writes + 1
            /\ retryPc' = "raised"
            /\ UNCHANGED sleeps
    /\ UNCHANGED <<attempt, retryCall, batchCalls, writerVars, exceptRetry>>

\* asyncio.sleep(delay) returns; the for loop takes the next attempt.
BackoffDone ==
    /\ retryPc = "sleep"
    /\ attempt' = attempt + 1
    /\ retryPc' = "execute"
    /\ UNCHANGED <<retryCall, failed_writes, batchCalls, attemptsMade, sleeps,
                   writerVars, exceptRetry>>

RetryNext == CallWriteBatch \/ AttemptCommits \/ AttemptFails \/ BackoffDone

(***************************************************************************)
(* One collector's WebSocket session and its control API.  self.ws is set  *)
(* on every successful websockets.connect and is never reset, so after a   *)
(* connection has closed it still refers to the closed connection.         *)
(***************************************************************************)
\* A subscription message for the ticker channels alone.
TickerChannelsOnly(owned) == {<<"ticker", x>> : x \in Range(owned)}

\* _subscribe_to_instruments: ticker.X.100ms and trades.X.100ms for every X
\* of self.instruments.
SubscriptionChannels(owned) == UNION {Channels(x) : x \in Range(owned)}

NoIntent == [n \in Instruments |-> "no"]

NoStatus == [done |-> FALSE, websocket_connected |-> FALSE, open |-> FALSE,
             instruments_count |-> 0]

SessionIdle ==
    /\ wsOpen = [c \in ConnectionIds |-> FALSE]
    /\ sentChannels = [c \in ConnectionIds |-> {}]
    /\ queued = [c \in ConnectionIds |-> NoIntent]
    /\ dropped = [c \in ConnectionIds |-> NoIntent]
    /\ statusResp = [c \in ConnectionIds |-> NoStatus]

SessionInit == SessionIdle

\* "waiting" becomes "connected" when a connect follows.
AfterConnect(intent) ==
    [n \in Instruments |-> IF intent[n] = "waiting" THEN "connected" ELSE intent[n]]

\* websockets.connect succeeds in _websocket_loop: self.ws = ws, and
\* _subscribe_to_instruments sends the subscription for self.instruments.
\* Without a result in the answer it raises, which closes the connection.
SessionConnect ==
    \E c \in ClientTargets : \E o \in WsOutcomes :
        /\ ~wsOpen[c]
        /\ Connect(c, o)
        /\ wsOpen' = [wsOpen EXCEPT ![c] = (o = "result")]
        /\ sentChannels' = [sentChannels EXCEPT ![c] =
               SubscriptionChannels(collectors[c].instruments)]
        /\ queued' = [queued EXCEPT ![c] = AfterConnect(@)]
        /\ dropped' = [dropped EXCEPT ![c] = AfterConnect(@)]
        /\ UNCHANGED <<statusResp, exceptSession>>

\* The connection closes (the server, a network error, ws.close() in
\* _refresh_instruments): `async with` ends, self.ws keeps the closed object.
SessionDisconnect ==
    \E c \in ClientTargets :
        /\ wsOpen[c]
        /\ wsOpen' = [wsOpen EXCEPT ![c] = FALSE]
        /\ UNCHANGED <<sentChannels, queued, dropped, statusResp, fleetVars,
                       exceptSession>>

\* What the WebSocket can do with the handler's messages: on a closed
\* connection ws.send raises.
SessionOutcomes(c, request) ==
    {outcomes \in OutcomeLists(request) :
        wsOpen[c] \/ \A i \in DOMAIN outcomes : outcomes[i] = "error"}

\* POST /api/subscribe
SessionSubscribe ==
    \E c \in ClientTargets : \E request \in Requests :
        \E outcomes \in SessionOutcomes(c, request) :
            LET out == handle_subscribe(collectors[c], subscribedBefore[c],
                                        request, outcomes)
            IN /\ collectors[c].started
               /\ collectors' = [collectors EXCEPT ![c] = out.col]
               /\ queued' = [queued EXCEPT ![c] =
                      [n \in Instruments |->
                          IF n \in Range(request) /\ ~wsOpen[c] THEN "waiting"
                          ELSE @[n]]]
               /\ dropped' = [dropped EXCEPT ![c] =
                      [n \in Instruments |->
                          IF n \in Range(request) THEN "no" ELSE @[n]]]
               /\ UNCHANGED <<exchange, lastCall, subscribedBefore, wsOpen,
                              sentChannels, statusResp, exceptSession>>

\* POST /api/unsubscribe
SessionUnsubscribe ==
    \E c \in ClientTargets : \E request \in Requests :
        \E outcomes \in SessionOutcomes(c, request) :
            LET out == handle_unsubscribe(collectors[c], subscribedBefore[c],
                                          request, outcomes)
            IN /\ collectors[c].started
               /\ collectors' = [collectors EXCEPT ![c] = out.col]
               /\ dropped' = [dropped EXCEPT ![c] =
                      [n \in Instruments |->
                          IF n \in Range(request) /\ n \in Range(collectors[c].instruments)
                          THEN "waiting" ELSE @[n]]]
               /\ queued' = [queued EXCEPT ![c] =
                      [n \in Instruments |->
                          IF n \in Range(request) THEN "no" ELSE @[n]]]
               /\ UNCHANGED <<exchange, lastCall, subscribedBefore, wsOpen,
                              sentChannels, statusResp, exceptSession>>

\* GET /api/status
handle_status(col) ==
    [done |-> TRUE, websocket_connected |-> col.ws,
     instruments_count |-> Len(col.instruments)]

SessionStatus ==
    \E c \in ClientTargets :
        /\ collectors[c].started
        /\ statusResp' = [statusResp EXCEPT ![c] =
               [done |-> TRUE,
                websocket_connected |-> handle_status(collectors[c]).websocket_connected,
                instruments_count |-> handle_status(collectors[c]).instruments_count,
                open |-> wsOpen[c]]]
        /\ UNCHANGED <<wsOpen, sentChannels, queued, dropped, fleetVars, exceptSession>>

SessionNext ==
    \/ Start
    \/ SessionConnect
    \/ SessionDisconnect
    \/ SessionSubscribe
    \/ SessionUnsubscribe
    \/ SessionStatus

(***************************************************************************)
(* The life of one collector process: main() of the orchestrator starts    *)
(* the control API and awaits collector.start(), whose finally clause      *)
(* awaits stop(); main()'s finally clause then stops the control API.      *)
(* start() ends when it raises or when its task is cancelled (SIGINT).     *)
(***************************************************************************)
\* WebSocket frames processed in one behaviour.
MaxFrames == 2

\* A shutdown that closes the WebSocket before the last flush.
StopOrderWsFirst(pc) ==
    CASE pc = "stop_running" -> "stop_ws"
      [] pc = "stop_ws" -> "stop_flush"
      [] pc = "stop_flush" -> "stop_pool"
      [] pc = "stop_pool" -> "api_stop"
      [] OTHER -> "exited"

\* The statement after each statement of stop(), and after stop() the
\* finally clause of main().
StopOrder(pc) ==
    CASE pc = "stop_running" -> "stop_flush"
      [] pc = "stop_flush" -> "stop_ws"
      [] pc = "stop_ws" -> "stop_pool"
      [] pc = "stop_pool" -> "api_stop"
      [] OTHER -> "exited"

\* A start() that would open the WebSocket without waiting for the snapshot.
TasksStartEarly(pc) == pc \in {"snapshot", "create_tasks"}

\* start() creates its tasks after fetch_and_populate has returned.
TasksStart(pc) == pc = "create_tasks"

LifeIdle ==
    /\ mainPc = "exited"
    /\ apiUp = FALSE
    /\ poolOpen = FALSE
    /\ wsState = "none"
    /\ restAnswered = {}
    /\ seedRows = {}
    /\ snapshotDone = FALSE
    /\ framesSeen = 0
    /\ stopLog = <<>>

\* main() has built the collector with its partition and the control API.
LifeInit ==
    /\ mainPc = "api_start"
    /\ apiUp = FALSE
    /\ poolOpen = FALSE
    /\ wsState = "none"
    /\ restAnswered = {}
    /\ seedRows = {}
    /\ snapshotDone = FALSE
    /\ framesSeen = 0
    /\ stopLog = <<>>

lifeRest == <<reconnect_delay, loopPc, connection_attempts, failures, slept,
              flushPc, elapsed, overdue, exceptLife>>

\* await control_api.start()
ApiStart ==
    /\ mainPc = "api_start"
    /\ apiUp' = TRUE
    /\ mainPc' = "db_connect"
    /\ UNCHANGED <<poolOpen, wsState, restAnswered, seedRows, snapshotDone, framesSeen,
                   stopLog, running, bufferVars, flushed, lifeRest>>

\* start(): await self.writer.connect().  When it raises, start() re-raises
\* and its finally clause runs stop().
WriterConnect ==
    /\ mainPc = "db_connect"
    /\ \E ok \in BOOLEAN :
          /\ poolOpen' = ok
          /\ mainPc' = IF ok THEN "snapshot" ELSE "stop_running"
    /\ UNCHANGED <<apiUp, wsState, restAnswered, seedRows, snapshotDone, framesSeen,
                   stopLog, running, bufferVars, flushed, lifeRest>>

\* start(): await snapshot_fetcher.fetch_and_populate(self.instruments,
\* save_full_depth=True).  Each instrument's REST call gives data or nothing;
\* the rows with data are written, and when the write raises, so does
\* fetch_and_populate, and start()'s finally clause runs stop().
InitialSnapshot ==
    /\ mainPc = "snapshot"
    /\ \E answered \in SUBSET Instruments : \E ok \in BOOLEAN :
          /\ restAnswered' = answered
          /\ seedRows' = IF ok THEN answered ELSE {}
          /\ snapshotDone' = ok
          /\ mainPc' = IF ok THEN "create_tasks" ELSE "stop_running"
    /\ UNCHANGED <<apiUp, poolOpen, wsState, framesSeen, stopLog, running,
                   bufferVars, flushed, lifeRest>>

\* start(): self.running = True, the six tasks are created, and start()
\* waits in asyncio.gather.
StartTasks ==
    /\ TasksStart(mainPc)
    /\ running' = TRUE
    /\ mainPc' = IF mainPc = "create_tasks" THEN "gather" ELSE mainPc
    /\ UNCHANGED <<apiUp, poolOpen, wsState, restAnswered, seedRows, snapshotDone,
                   framesSeen, stopLog, bufferVars, flushed, lifeRest>>

\* _websocket_loop: websockets.connect succeeds, self.ws = ws.
LifeConnect ==
    /\ running
    /\ wsState # "open"
    /\ wsState' = "open"
    /\ UNCHANGED <<mainPc, apiUp, poolOpen, restAnswered, seedRows, snapshotDone,
                   framesSeen, stopLog, running, bufferVars, flushed, lifeRest>>

\* _process_messages: a frame of the session is processed and its tick is
\* buffered.
LifeFrame ==
    /\ running
    /\ wsState = "open"
    /\ framesSeen < MaxFrames
    /\ framesSeen' = framesSeen + 1
    /\ add_quote \/ add_trade
    /\ UNCHANGED <<mainPc, apiUp, poolOpen, wsState, restAnswered, seedRows,
                   snapshotDone, stopLog, running, flushed, lifeRest>>

\* The connection is lost; self.ws keeps the closed connection.
LifeDisconnect ==
    /\ running
    /\ wsState = "open"
    /\ wsState' = "closed"
    /\ UNCHANGED <<mainPc, apiUp, poolOpen, restAnswered, seedRows, snapshotDone,
                   framesSeen, stopLog, running, bufferVars, flushed, lifeRest>>

\* _flush_loop wakes with ticks buffered and flushes.
LifeFlush ==
    /\ running
    /\ FlushCondition
    /\ stats["quotes"].flushes_triggered < MaxFlushes - 1
    /\ _flush_buffers
    /\ UNCHANGED <<lifeVars, running, lifeRest>>

\* The task of main() is cancelled while start() awaits (SIGINT under
\* asyncio.run): the tasks of the collector are cancelled with it and
\* start()'s finally clause runs stop().
Interrupt ==
    /\ mainPc \in {"db_connect", "snapshot", "gather"}
    /\ mainPc' = "stop_running"
    /\ UNCHANGED <<apiUp, poolOpen, wsState, restAnswered, seedRows, snapshotDone,
                   framesSeen, stopLog, running, bufferVars, flushed, lifeRest>>

\* stop(): self.running = False
StopRunning ==
    /\ mainPc = "stop_running"
    /\ running' = FALSE
    /\ stopLog' = Append(stopLog, "running_cleared")
    /\ mainPc' = StopOrder(mainPc)
    /\ UNCHANGED <<apiUp, poolOpen, wsState, restAnswered, seedRows, snapshotDone,
                   framesSeen, bufferVars, flushed, lifeRest>>

\* stop(): await self._flush_buffers()
StopFlush ==
    /\ mainPc = "stop_flush"
    /\ _flush_buffers
    /\ stopLog' = Append(stopLog, "flushed")
    /\ mainPc' = StopOrder(mainPc)
    /\ UNCHANGED <<apiUp, poolOpen, wsState, restAnswered, seedRows, snapshotDone,
                   framesSeen, running, lifeRest>>

\* stop(): if self.ws: await self.ws.close()
StopWs ==
    /\ mainPc = "stop_ws"
    /\ IF wsState = "none"
       THEN UNCHANGED <<wsState, stopLog>>
       ELSE /\ wsState' = "closed"
            /\ stopLog' = Append(stopLog, "ws_closed")
    /\ mainPc' = StopOrder(mainPc)
    /\ UNCHANGED <<apiUp, poolOpen, restAnswered, seedRows, snapshotDone,
                   framesSeen, running, bufferVars, flushed, lifeRest>>

\* stop(): await self.writer.close(), which closes the pool when there is one.
StopPool ==
    /\ mainPc = "stop_pool"
    /\ IF poolOpen
       THEN /\ poolOpen' = FALSE
            /\ stopLog' = Append(stopLog, "pool_closed")
       ELSE UNCHANGED <<poolOpen, stopLog>>
    /\ mainPc' = StopOrder(mainPc)
    /\ UNCHANGED <<apiUp, wsState, restAnswered, seedRows, snapshotDone,
                   framesSeen, running, bufferVars, flushed, lifeRest>>

\* main(): finally: await control_api.stop()
ApiStop ==
    /\ mainPc = "api_stop"
    /\ apiUp' = FALSE
    /\ stopLog' = Append(stopLog, "api_stopped")
    /\ mainPc' = StopOrder(mainPc)
    /\ UNCHANGED <<poolOpen, wsState, restAnswered, seedRows, snapshotDone,
                   framesSeen, running, bufferVars, flushed, lifeRest>>

LifeNext ==
    \/ ApiStart
    \/ WriterConnect
    \/ InitialSnapshot
    \/ StartTasks
    \/ LifeConnect
    \/ LifeFrame
    \/ LifeDisconnect
    \/ LifeFlush
    \/ Interrupt
    \/ StopRunning
    \/ StopFlush
    \/ StopWs
    \/ StopPool
    \/ ApiStop

(***************************************************************************)
(* The heartbeat monitor of a collector: every heartbeat_timeout_sec       *)
(* seconds it compares the time since self.last_tick_time, when that is    *)
(* set, with no_ticks_refresh_threshold_sec.                               *)
(***************************************************************************)
\* Seconds of the collector's life that are followed.
MaxClock == 330

\* self.last_tick_time = None
NoTick == 0 - 1

\* The last check of the monitor: the silence it measured, whether it
\* called _refresh_instruments, when a check last did so (NoTick: never)
\* and, for a check that did so again, the seconds between the two calls.
NoCheck == [done |-> FALSE, silence |-> 0, refreshed |-> FALSE,
            refreshedAt |-> NoTick, gap |-> 0]

\* What _refresh_instruments does with self.last_tick_time: it sets it to
\* now after replacing the list, and leaves it alone when it returns early
\* (no active instruments found) or fails.
RefreshOutcomes == {"replaced", "returned_early"}

HeartIdle ==
    /\ clock = 0
    /\ last_tick_time = NoTick
    /\ heartPc = "exited"
    /\ lastCheck = NoCheck

\* start() has set running and created the task of _heartbeat_monitor.
HeartInit ==
    /\ clock = 0
    /\ last_tick_time = NoTick
    /\ heartPc = "sleep"
    /\ lastCheck = NoCheck

\* _process_messages: a frame with params arrives,
\* self.last_tick_time = datetime.now().
HeartTick ==
    /\ running
    /\ last_tick_time # clock
    /\ last_tick_time' = clock
    /\ UNCHANGED <<clock, heartPc, lastCheck, loopVars, exceptHeart>>

\* time_since_last_tick > self.no_ticks_refresh_threshold_sec, evaluated
\* only under `if self.last_tick_time:`.
RefreshDue(last, now) ==
    last # NoTick /\ now - last > no_ticks_refresh_threshold_sec

\* One round of the loop: the sleep of heartbeat_timeout_sec seconds, the
\* check, _refresh_instruments when it is due, and the test of self.running.
HeartbeatCheck ==
    /\ heartPc = "sleep"
    /\ clock + heartbeat_timeout_sec <= MaxClock
    /\ clock' = clock + heartbeat_timeout_sec
    /\ \E outcome \in RefreshOutcomes :
          /\ last_tick_time' =
                IF RefreshDue(last_tick_time, clock') /\ outcome = "replaced"
                THEN clock' ELSE last_tick_time
          /\ lastCheck' =
                [done |-> TRUE,
                 silence |-> IF last_tick_time = NoTick THEN clock'
                             ELSE clock' - last_tick_time,
                 refreshed |-> RefreshDue(last_tick_time, clock'),
                 refreshedAt |-> IF RefreshDue(last_tick_time, clock')
                                 THEN clock' ELSE lastCheck.refreshedAt,
                 gap |-> IF RefreshDue(last_tick_time, clock')
                            /\ lastCheck.refreshedAt # NoTick
                         THEN clock' - lastCheck.refreshedAt ELSE 0]
    /\ heartPc' = IF running THEN "sleep" ELSE "exited"
    /\ UNCHANGED <<loopVars, exceptHeart>>

HeartStop == StopCollector /\ UNCHANGED heartVars

HeartNext == HeartTick \/ HeartbeatCheck \/ HeartStop

(***************************************************************************)
(* MultiCurrencyInstrumentFetcher: the top-N catalog client with its       *)
(* one-hour cache.                                                         *)
(***************************************************************************)
\* Seconds of wall clock followed after the fetcher is built.
MaxCatalogAge == 7200

\* self.cache = None
NoCache == [some |-> FALSE, names |-> <<>>]

\* self.cache_timestamp = None
NoStamp == 0 - 1

\* _is_cache_valid
_is_cache_valid(c, stamp, now) ==
    /\ c.some
    /\ stamp # NoStamp
    /\ now - stamp < cache_duration

\* The filter of get_top_n_options on the dicts of the REST answer.
ActiveOptionDicts(instruments) ==
    SelectSeq(instruments,
              LAMBDA inst : /\ inst.settlement_period # "expired"
                            /\ inst.kind = "option"
                            /\ inst.is_active)

\* sorted(..., key=open_interest, reverse=True): a stable sort, so dicts of
\* equal open interest keep the order of the answer.
RECURSIVE InsertByOpenInterest(_, _)
InsertByOpenInterest(sorted, x) ==
    IF sorted = <<>> THEN <<x>>
    ELSE IF Head(sorted).open_interest >= x.open_interest
         THEN <<Head(sorted)>> \o InsertByOpenInterest(Tail(sorted), x)
         ELSE <<x>> \o sorted

RECURSIVE SortedByOpenInterest(_)
SortedByOpenInterest(insts) ==
    IF insts = <<>> THEN <<>>
    ELSE InsertByOpenInterest(SortedByOpenInterest(SubSeq(insts, 1, Len(insts) - 1)),
                              insts[Len(insts)])

\* get_top_n_options(n) with the fetcher's cache c and cache_timestamp stamp,
\* the clock reading now and rest what _fetch_all_options does (ok with the
\* result of the answer, or not ok when it raises after its retries): what
\* the call returns or that it raises, the cache it leaves, and whether it
\* made the REST request.
get_top_n_options(c, stamp, now, n, rest) ==
    IF _is_cache_valid(c, stamp, now)
    THEN [raised |-> FALSE, ret |-> Slice(c.names, 0, n), cache |-> c,
          cache_timestamp |-> stamp, requested |-> FALSE]
    ELSE IF rest.ok
    THEN LET instrument_names ==
                 InstrumentNames(Slice(SortedByOpenInterest(ActiveOptionDicts(rest.result)),
                                       0, n))
         IN [raised |-> FALSE, ret |-> instrument_names,
             cache |-> [some |-> TRUE, names |-> instrument_names],
             cache_timestamp |-> now, requested |-> TRUE]
    ELSE IF c.some /\ c.names # <<>>
    THEN [raised |-> FALSE, ret |-> Slice(c.names, 0, n), cache |-> c,
          cache_timestamp |-> stamp, requested |-> TRUE]
    ELSE [raised |-> TRUE, ret |-> <<>>, cache |-> c,
          cache_timestamp |-> stamp, requested |-> TRUE]

\* ---- inputs
\* ETH-10NOV25-3100-C, ETH-29DEC25-3100-C and ETH-29DEC25-3100-P
Expiring == OptionName("ETH", <<"1", "0">>, 11, <<"2", "5">>, "C").name

LaterCall == OptionName("ETH", <<"2", "9">>, 12, <<"2", "5">>, "C").name

LaterPut == OptionName("ETH", <<"2", "9">>, 12, <<"2", "5">>, "P").name

\* One dict of the answer of public/get_instruments.
RestDict(name, open_interest, is_active) ==
    [instrument_name |-> name, kind |-> "option", is_active |-> is_active,
     settlement_period |-> "month", open_interest |-> open_interest]

RestResults ==
    {<<>>,
     <<RestDict(LaterCall, 1, TRUE)>>,
     <<RestDict(LaterCall, 1, TRUE), RestDict(LaterPut, 2, TRUE)>>,
     <<RestDict(Expiring, 3, TRUE), RestDict(LaterCall, 1, TRUE)>>,
     <<RestDict(LaterPut, 2, FALSE), RestDict(LaterCall, 1, TRUE)>>}

RestAnswers ==
    {[ok |-> FALSE, result |-> <<>>]} \cup {[ok |-> TRUE, result |-> r] : r \in RestResults}

TopNSamples == {0, 1, 2}

\* Half an hour before the settlement of ETH-10NOV25-3100-C.
CatalogEpoch == Settlement(<<2025, 11, 10>>) - 1800

WaitSamples == {1800, 3599}

NoFetch == [done |-> FALSE, n |-> 0, requested |-> FALSE, restFailed |-> FALSE,
            raised |-> FALSE, ret |-> <<>>, at |-> 0,
            before |-> [some |-> FALSE, names |-> <<>>, at |-> 0]]

CatalogIdle ==
    /\ cache = NoCache
    /\ cache_timestamp = NoStamp
    /\ utcNow = 0
    /\ lastFetch = NoFetch
    /\ lastSuccess = NoFetch.before

\* MultiCurrencyInstrumentFetcher.__init__
CatalogInit ==
    /\ cache = NoCache
    /\ cache_timestamp = NoStamp
    /\ utcNow = CatalogEpoch
    /\ lastFetch = NoFetch
    /\ lastSuccess = NoFetch.before

\* Time passes between two calls.
CatalogWait ==
    \E w \in WaitSamples :
        /\ utcNow + w <= CatalogEpoch + MaxCatalogAge
        /\ utcNow' = utcNow + w
        /\ UNCHANGED <<cache, cache_timestamp, lastFetch, lastSuccess, exceptCatalog>>

\* A caller awaits get_top_n_options(n).
CallTopN ==
    \E n \in TopNSamples : \E rest \in RestAnswers :
        LET out == get_top_n_options(cache, cache_timestamp, utcNow, n, rest)
        IN /\ cache' = out.cache
           /\ cache_timestamp' = out.cache_timestamp
           /\ lastFetch' = [done |-> TRUE, n |-> n, requested |-> out.requested,
                            restFailed |-> out.requested /\ ~rest.ok,
                            raised |-> out.raised, ret |-> out.ret, at |-> utcNow,
                            before |-> lastSuccess]
           /\ lastSuccess' =
                  IF out.requested /\ rest.ok
                  THEN [some |-> TRUE, names |-> out.ret, at |-> utcNow]
                  ELSE lastSuccess
           /\ UNCHANGED <<utcNow, exceptCatalog>>

CatalogNext == CatalogWait \/ CallTopN

(***************************************************************************)
(* The instrument refresh of a collector: _instrument_refresh_loop wakes   *)
(* at the next expiry plus a minute (at most an hour later), and calls     *)
(* _refresh_instruments when the expiry checker drops a name of the owned  *)
(* list.  The catalog is the collector's MultiCurrencyInstrumentFetcher.   *)
(***************************************************************************)
\* Seconds of wall clock followed after start() has created the tasks.
MaxRefreshAge == 2500

\* get_next_expiry_time: the earliest expiry the names give, NoExpiry (None)
\* when none gives one.
get_next_expiry_time(instruments) ==
    LET expiry_times == {parse_expiry_from_instrument(instruments[i]) :
                            i \in DOMAIN instruments} \ {NoExpiry}
    IN IF expiry_times = {} THEN NoExpiry
       ELSE CHOOSE t \in expiry_times : \A u \in expiry_times : t <= u

\* sleep_time of _instrument_refresh_loop
RefreshSleepTime(instruments, now) ==
    LET next_expiry == get_next_expiry_time(instruments)
    IN IF next_expiry # NoExpiry
       THEN Min(refresh_interval_sec, Max(60, next_expiry - now + 60))
       ELSE refresh_interval_sec

\* _refresh_instruments with the owned list, self.ws, top_n_instruments, the
\* fetcher's cache, the clock and what the REST request does: the owned list,
\* the connection and the cache it leaves, and whether it replaced the list.
\* An exception of get_top_n_options is caught and logged.
_refresh_instruments(owned, ws, n, c, stamp, now, rest) ==
    LET out == get_top_n_options(c, stamp, now, n, rest)
        new_instruments == filter_expired_instruments(out.ret, 5, now)
        replaced == ~out.raised /\ new_instruments # <<>>
    IN [instruments |-> IF replaced THEN new_instruments ELSE owned,
        ws |-> IF replaced /\ ws = "open" THEN "closed" ELSE ws,
        cache |-> out.cache,
        cache_timestamp |-> out.cache_timestamp,
        replaced |-> replaced]

NoRefresh == [done |-> FALSE, at |-> 0, answered |-> FALSE, instruments |-> <<>>,
              ws |-> "none"]

RefreshIdle ==
    /\ self_instruments = <<>>
    /\ top_n_instruments = 0
    /\ selfWs = "none"
    /\ subscribed = {}
    /\ lastRefresh = NoRefresh
    /\ resubscribed = FALSE

\* Partitions the orchestrator assigns.
AssignedPartitions == {<<Expiring>>, <<Expiring, LaterCall>>, <<LaterCall, LaterPut>>}

\* start() has created the tasks.  The orchestrator built the collector with
\* top_n_instruments=0 and set collector.instruments to the partition, so
\* start() made no catalog call; a collector on its own fetched its list
\* with get_top_n_options(n=self.top_n_instruments).
RefreshInit ==
    /\ selfWs = "none"
    /\ subscribed = {}
    /\ lastRefresh = NoRefresh
    /\ resubscribed = FALSE
    /\ utcNow = CatalogEpoch
    /\ lastFetch = NoFetch
    /\ lastSuccess = NoFetch.before
    /\ \/ /\ top_n_instruments = 0
          /\ self_instruments \in AssignedPartitions
          /\ cache = NoCache
          /\ cache_timestamp = NoStamp
       \/ /\ top_n_instruments \in {1, 2}
          /\ \E rest \in RestAnswers :
                LET out == get_top_n_options(NoCache, NoStamp, CatalogEpoch,
                                             top_n_instruments, rest)
                IN /\ rest.ok
                   /\ out.ret # <<>>
                   /\ self_instruments = out.ret
                   /\ cache = out.cache
                   /\ cache_timestamp = out.cache_timestamp

\* websockets.connect succeeds and _subscribe_to_instruments sends the
\* channels of self.instruments.
RefreshConnect ==
    /\ running
    /\ selfWs # "open"
    /\ selfWs' = "open"
    /\ subscribed' = SubscriptionChannels(self_instruments)
    /\ resubscribed' = TRUE
    /\ UNCHANGED <<self_instruments, top_n_instruments, lastRefresh, catalogVars,
                   loopVars, heartVars, exceptRefresh>>

\* The connection is lost.
RefreshDisconnect ==
    /\ selfWs = "open"
    /\ selfWs' = "closed"
    /\ UNCHANGED <<self_instruments, top_n_instruments, subscribed, lastRefresh,
                   resubscribed, catalogVars, loopVars, heartVars, exceptRefresh>>

\* One round of _instrument_refresh_loop: the sleep, the test of
\* self.running, the expiry check of the owned list and, when a name has
\* expired, _refresh_instruments (which also resets self.last_tick_time
\* after replacing the list).
RefreshLoopRound ==
    LET sleep_time == RefreshSleepTime(self_instruments, utcNow)
        now == utcNow + sleep_time
        active_instruments == filter_expired_instruments(self_instruments, 5, now)
    IN /\ running
       /\ now <= CatalogEpoch + MaxRefreshAge
       /\ utcNow' = now
       /\ IF Len(active_instruments) < Len(self_instruments)
          THEN \E rest \in RestAnswers :
                  LET out == _refresh_instruments(self_instruments, selfWs,
                                                  top_n_instruments, cache,
                                                  cache_timestamp, now, rest)
                  IN /\ self_instruments' = out.instruments
                     /\ selfWs' = out.ws
                     /\ cache' = out.cache
                     /\ cache_timestamp' = out.cache_timestamp
                     /\ last_tick_time' = IF out.replaced THEN now - CatalogEpoch
                                          ELSE last_tick_time
                     /\ lastRefresh' = [done |-> TRUE, at |-> now,
                                        answered |-> rest.ok,
                                        instruments |-> out.instruments,
                                        ws |-> out.ws]
                     /\ resubscribed' = FALSE
          ELSE UNCHANGED <<self_instruments, selfWs, cache, cache_timestamp,
                           last_tick_time, lastRefresh, resubscribed>>
       /\ UNCHANGED <<top_n_instruments, subscribed, lastFetch, lastSuccess,
                      clock, heartPc, lastCheck, loopVars, exceptRefresh>>

RefreshStop ==
    /\ StopCollector
    /\ UNCHANGED <<refreshVars, catalogVars>>

RefreshNext == RefreshConnect \/ RefreshDisconnect \/ RefreshLoopRound \/ RefreshStop

(***************************************************************************)
(* The WebSocket loop of a collector together with its tick buffer and its *)
(* flush loop: ticks are buffered while a session is up, the flush loop    *)
(* runs through disconnects, backoff sleeps and reconnects.                *)
(***************************************************************************)
\* Connection attempts and ticks of one run.
MaxSessions == 2
MaxSessionTicks == 2

\* _process_messages hands a tick of the session to the buffer.
SessionTick ==
    /\ loopPc = "session"
    /\ nextTick <= MaxSessionTicks
    /\ TickArrives

\* while self.running: the next connection attempt begins, or the loop ends.
SessionLoopTest ==
    /\ connection_attempts < MaxSessions
    /\ LoopTest

ReconnectBufferNext ==
    \/ SessionLoopTest
    \/ ConnectOk
    \/ LoopException
    \/ SleepDone
    \/ SessionClosed
    \/ SessionTick
    \/ FlushSecond
    \/ FlushWake
    \/ FlushStop

(***************************************************************************)
(* The orchestrator's main() before the collector is built: the partition  *)
(* of this CONNECTION_ID is fetched, and a ValueError or a failed REST     *)
(* request ends the process through `except Exception: sys.exit(1)`.       *)
(***************************************************************************)
\* A lookup that hands an empty partition to an id beyond the last one.
PartitionOrEmpty(ex, connection_id, fetched) ==
    LET partitions == partition_instruments(ActiveOptions(ex), MaxPerPartition)
    IN [raised |-> ~fetched,
        partition |-> IF fetched /\ connection_id < Len(partitions)
                      THEN partitions[connection_id + 1] ELSE <<>>]

\* get_partition_for_connection: fetch_all_options, filter_expired_instruments,
\* partition_instruments and the check of connection_id.
get_partition_for_connection(ex, connection_id, fetched) ==
    LET partitions == partition_instruments(ActiveOptions(ex), MaxPerPartition)
    IN IF ~fetched \/ connection_id >= Len(partitions)
       THEN [raised |-> TRUE, partition |-> <<>>]
       ELSE [raised |-> FALSE, partition |-> partitions[connection_id + 1]]

\* CONNECTION_ID values tried.
ConnectionIdSamples == 0..3

OrchIdle ==
    /\ orchArgs = [connection_id |-> 0, fetched |-> FALSE,
                   exchange |-> [n \in Instruments |-> "live"]]
    /\ assigned = <<>>

\* main() is entered.
OrchInit ==
    /\ \E id \in ConnectionIdSamples : \E ok \in BOOLEAN :
          \E ex \in [Instruments -> {"live", "expired"}] :
             orchArgs = [connection_id |-> id, fetched |-> ok, exchange |-> ex]
    /\ assigned = <<>>
    /\ mainPc = "get_partition"
    /\ apiUp = FALSE
    /\ poolOpen = FALSE
    /\ wsState = "none"
    /\ restAnswered = {}
    /\ seedRows = {}
    /\ snapshotDone = FALSE
    /\ framesSeen = 0
    /\ stopLog = <<>>

\* instruments = await get_partition_for_connection(CURRENCY, CONNECTION_ID);
\* an exception of it reaches sys.exit(1) before the collector and the
\* control API are built.
GetPartition ==
    LET out == get_partition_for_connection(orchArgs.exchange, orchArgs.connection_id,
                                            orchArgs.fetched)
    IN /\ mainPc = "get_partition"
       /\ mainPc' = IF out.raised THEN "exit_1" ELSE "api_start"
       /\ assigned' = out.partition
       /\ UNCHANGED <<orchArgs, apiUp, poolOpen, wsState, restAnswered, seedRows,
                      snapshotDone, framesSeen, stopLog, bufferVars, loopVars,
                      flushVars, exceptOrch>>

OrchNext == GetPartition \/ LifeNext

(***************************************************************************)
(* The expiry checker on dated-future names, CCY-DDMMMYY.                  *)
(***************************************************************************)
\* The future name CCY-DDMMMYY together with the date it names (NoDate when
\* it is not a calendar date).
FutureName(ccy, dd, m, yy) ==
    LET y == 2000 + DayNumber(yy)
        d == DayNumber(dd)
    IN [name |-> Chars(ccy) \o <<"-">> \o dd \o MonthAbbr[m] \o yy,
        named |-> IF d >= 1 /\ d <= DaysInMonth(y, m) THEN <<y, m, d>> ELSE NoDate]

FutureNames ==
    {FutureName(ccy, dd, m, yy) :
        ccy \in {"ETH", "BTC"}, dd \in DaySamples, m \in MonthSamples,
        yy \in YearSamples}

FuturesInit ==
    /\ \E n \in FutureNames : \E b \in BufferSamples : \E t \in NowSamples :
          expArgs = [name |-> n.name, named |-> n.named, buffer_minutes |-> b, now |-> t]
    /\ expRet = [done |-> FALSE, expired |-> FALSE, kept |-> <<>>]

\* parse_expiry_from_instrument, is_instrument_expired,
\* filter_expired_instruments and get_next_expiry_time are called with the
\* name.
CallOracle ==
    /\ ~expRet.done
    /\ expRet' = [done |-> TRUE,
                  parsed |-> parse_expiry_from_instrument(expArgs.name),
                  expired |-> is_instrument_expired(expArgs.name, expArgs.buffer_minutes,
                                                    expArgs.now),
                  kept |-> filter_expired_instruments(<<expArgs.name>>,
                                                      expArgs.buffer_minutes, expArgs.now),
                  next_expiry |-> get_next_expiry_time(<<expArgs.name>>)]
    /\ UNCHANGED <<expArgs, exceptExp>>

(***************************************************************************)
(* The control API's POST handlers from the request body on: the body is   *)
(* read with request.json(), and an exception of the handler is answered   *)
(* by its `except Exception` clause.                                       *)
(***************************************************************************)
\* Request bodies: one that is not JSON, a JSON object without the
\* instruments member, and objects with an instruments list (the empty
\* list among them).
Bodies ==
    {[kind |-> "not_json", instruments |-> <<>>],
     [kind |-> "no_instruments", instruments |-> <<>>]}
    \cup {[kind |-> "instruments", instruments |-> r] : r \in Requests}

NoHttp == [done |-> FALSE, op |-> "none", kind |-> "none", request |-> <<>>,
           status |-> 0, success |-> FALSE, error |-> FALSE, unchanged |-> TRUE]

\* The response of handle_subscribe / handle_unsubscribe to a body, given
\* what the handler's loop did (out, for a body that was read): status 500
\* with the exception's text when request.json() raises, status 400 with
\* 'No instruments provided' when data.get('instruments', []) is empty, and
\* status 200 with success = (len(failed) == 0) otherwise.
HttpResponse(op, body, col, out) ==
    IF body.kind = "not_json"
    THEN [done |-> TRUE, op |-> op, kind |-> body.kind, request |-> <<>>,
          status |-> 500, success |-> FALSE, error |-> TRUE, unchanged |-> TRUE]
    ELSE [done |-> TRUE, op |-> op, kind |-> body.kind, request |-> body.instruments,
          status |-> out.call.status,
          success |-> out.call.status = 200 /\ out.call.failed = <<>>,
          error |-> out.call.status # 200,
          unchanged |-> /\ out.col.instruments = col.instruments
                        /\ out.col.subscribed_channels = col.subscribed_channels]

HttpIdle == httpResp = [c \in ConnectionIds |-> NoHttp]

\* POST /api/subscribe with a body
PostSubscribe ==
    \E c \in ClientTargets : \E body \in Bodies :
        \E outcomes \in OutcomeLists(body.instruments) :
            LET out == handle_subscribe(collectors[c], subscribedBefore[c],
                                        body.instruments, outcomes)
            IN /\ collectors[c].started
               /\ httpResp' = [httpResp EXCEPT ![c] =
                      HttpResponse("subscribe", body, collectors[c], out)]
               /\ IF body.kind = "not_json"
                  THEN UNCHANGED <<collectors, lastCall, subscribedBefore>>
                  ELSE /\ collectors' = [collectors EXCEPT ![c] = out.col]
                       /\ lastCall' = [lastCall EXCEPT ![c] = out.call]
                       /\ subscribedBefore' = [subscribedBefore EXCEPT ![c] = out.before]
               /\ UNCHANGED <<exchange, exceptHttp>>

\* POST /api/unsubscribe with a body
PostUnsubscribe ==
    \E c \in ClientTargets : \E body \in Bodies :
        \E outcomes \in OutcomeLists(body.instruments) :
            LET out == handle_unsubscribe(collectors[c], subscribedBefore[c],
                                          body.instruments, outcomes)
            IN /\ collectors[c].started
               /\ httpResp' = [httpResp EXCEPT ![c] =
                      HttpResponse("unsubscribe", body, collectors[c], out)]
               /\ IF body.kind = "not_json"
                  THEN UNCHANGED <<collectors, lastCall, subscribedBefore>>
                  ELSE /\ collectors' = [collectors EXCEPT ![c] = out.col]
                       /\ lastCall' = [lastCall EXCEPT ![c] = out.call]
                       /\ subscribedBefore' = [subscribedBefore EXCEPT ![c] = out.before]
               /\ UNCHANGED <<exchange, exceptHttp>>

HttpNext == Start \/ WsConnect \/ PostSubscribe \/ PostUnsubscribe

(***************************************************************************)
(* FundingRatesCollector: the continuous loop of start().  Times are       *)
(* seconds since a midnight UTC.                                           *)
(***************************************************************************)
FUNDING_HOURS == <<0, 8, 16>>

DaySeconds == 86400

HourSeconds == 3600

\* The funding publication times up to the end of the modelled clock.
FundingTimes ==
    {d * DaySeconds + FUNDING_HOURS[i] * HourSeconds :
        d \in 0..(MaxFundClock \div DaySeconds), i \in DOMAIN FUNDING_HOURS}

\* _get_next_funding_time: the first funding hour greater than the current
\* hour, today at minute 0; with none left, FUNDING_HOURS[0] tomorrow.
_get_next_funding_time(current_time) ==
    LET midnight == (current_time \div DaySeconds) * DaySeconds
        current_hour == (current_time % DaySeconds) \div HourSeconds
        later == {i \in DOMAIN FUNDING_HOURS : FUNDING_HOURS[i] > current_hour}
    IN IF later = {}
       THEN midnight + DaySeconds + FUNDING_HOURS[1] * HourSeconds
       ELSE midnight +
            FUNDING_HOURS[CHOOSE i \in later : \A j \in later : i <= j] * HourSeconds

\* The test of the loop: the funding time was recent.
CollectionTriggered(now_utc) ==
    LET time_until_funding == _get_next_funding_time(now_utc) - now_utc
        distance == IF time_until_funding < 0 THEN 0 - time_until_funding
                    ELSE time_until_funding
    IN time_until_funding < 0 /\ distance < check_interval_sec * 2

\* The times of day at which start() is called, and how much longer than
\* check_interval_sec one round of the loop takes.
FundStartSamples == {7 * HourSeconds + 3000, 15 * HourSeconds + 3599, 23 * HourSeconds}

RoundOverheads == {0, 1}

FundIdle ==
    /\ fundRunning = FALSE
    /\ fundPc = "new"
    /\ fundNow = 0
    /\ fundStarted = 0
    /\ collectedAt = {}

FundInit ==
    /\ fundRunning = FALSE
    /\ fundPc = "new"
    /\ fundNow \in FundStartSamples
    /\ fundStarted = 0
    /\ collectedAt = {}

\* start() up to the loop: connect, _backfill_recent, self.running = True.
FundStart ==
    /\ fundPc = "new"
    /\ fundPc' = "loop"
    /\ fundRunning' = TRUE
    /\ fundStarted' = fundNow
    /\ UNCHANGED <<fundNow, collectedAt, exceptFund>>

\* One round of `while self.running`: the test, the collection when it is
\* triggered, and asyncio.sleep(self.check_interval_sec).
FundLoopRound ==
    \E overhead \in RoundOverheads :
        /\ fundPc = "loop"
        /\ fundRunning
        /\ fundNow + check_interval_sec + overhead <= MaxFundClock
        /\ collectedAt' = IF CollectionTriggered(fundNow)
                          THEN collectedAt \cup {fundNow} ELSE collectedAt
        /\ fundNow' = fundNow + check_interval_sec + overhead
        /\ UNCHANGED <<fundRunning, fundPc, fundStarted, exceptFund>>

\* stop(): self.running = False
FundStop ==
    /\ fundPc = "loop"
    /\ fundRunning
    /\ fundRunning' = FALSE
    /\ UNCHANGED <<fundPc, fundNow, fundStarted, collectedAt, exceptFund>>

\* The loop test fails and start() leaves through its finally clause.
FundExit ==
    /\ fundPc = "loop"
    /\ ~fundRunning
    /\ fundPc' = "closed"
    /\ UNCHANGED <<fundRunning, fundNow, fundStarted, collectedAt, exceptFund>>

FundNext == FundStart \/ FundLoopRound \/ FundStop \/ FundExit

(***************************************************************************)
(* _flush_buffers with the writer behind it: the lists drained by          *)
(* get_and_clear go to write_quotes, write_trades and                      *)
(* write_depth_snapshots inside one try block.  Ticks are ids.             *)
(***************************************************************************)
\* Ticks of one kind buffered in one behaviour.
MaxStoreTicks == 2

TickKinds == <<"quotes", "trades", "depth">>

NoTicks == [k \in Range(TickKinds) |-> <<>>]

NoRows == [k \in Range(TickKinds) |-> {}]

NoFlushCall == [done |-> FALSE, drained |-> NoTicks, failKind |-> "none", failAt |-> 0]

\* The rows the three write calls of _flush_buffers commit when the
\* sub-batch failAt of the list failKind fails on its last attempt
\* ("none": no failure): _write_*_batch raises, which ends the loop of
\* write_* over the sub-batches and the try block of _flush_buffers.
FlushWrites(drained, size, failKind, failAt) ==
    LET Position(kind) == CHOOSE i \in DOMAIN TickKinds : TickKinds[i] = kind
        Written(k) ==
            IF failKind = "none" \/ Position(k) < Position(failKind) THEN drained[k]
            ELSE IF k = failKind THEN Committed(drained[k], size, failAt)
            ELSE <<>>
    IN [k \in Range(TickKinds) |-> Range(Written(k))]

StoreIdle ==
    /\ pendingTicks = NoTicks
    /\ storeRows = NoRows
    /\ storeBatch = 1
    /\ ticksMade = [k \in Range(TickKinds) |-> 0]
    /\ lastFlushCall = NoFlushCall

StoreInit ==
    /\ pendingTicks = NoTicks
    /\ storeRows = NoRows
    /\ storeBatch \in BatchSizes
    /\ ticksMade = [k \in Range(TickKinds) |-> 0]
    /\ lastFlushCall = NoFlushCall

\* buffer.add_quote / add_trade / add_depth of the next tick of a kind.
StoreTick ==
    \E k \in Range(TickKinds) :
        /\ ticksMade[k] < MaxStoreTicks
        /\ ticksMade' = [ticksMade EXCEPT ![k] = @ + 1]
        /\ pendingTicks' = [pendingTicks EXCEPT ![k] = Append(@, ticksMade[k] + 1)]
        /\ UNCHANGED <<storeRows, storeBatch, lastFlushCall, exceptStore>>

\* The sub-batches of a flush that can fail: none, or one of a non-empty list.
FlushFailures(drained, size) ==
    {<<"none", 0>>} \cup
        {f \in Range(TickKinds) \X (1..MaxStoreTicks) :
            drained[f[1]] # <<>> /\ f[2] <= NumBatches(drained[f[1]], size)}

\* _flush_buffers
FlushToStore ==
    \E f \in FlushFailures(pendingTicks, storeBatch) :
        LET written == FlushWrites(pendingTicks, storeBatch, f[1], f[2])
        IN /\ pendingTicks # NoTicks
           /\ pendingTicks' = NoTicks
           /\ storeRows' = [k \in Range(TickKinds) |-> storeRows[k] \cup written[k]]
           /\ lastFlushCall' = [done |-> TRUE, drained |-> pendingTicks,
                                failKind |-> f[1], failAt |-> f[2]]
           /\ UNCHANGED <<storeBatch, ticksMade, exceptStore>>

StoreNext == StoreTick \/ FlushToStore

(***************************************************************************)
(* _process_messages: one frame per round of `async for message in         *)
(* self.ws`, with _handle_quote_tick and _handle_trade_tick.               *)
(***************************************************************************)
\* Frames read in one behaviour.
MaxWsFrames == 3

\* Frames: bytes that are not JSON; JSON without 'params' (an answer to a
\* request); a ticker notification whose data has its required fields or
\* lacks one; a trades notification with one or two records, each with its
\* required fields (TRUE) or lacking one (FALSE).
WsFrames ==
    {[kind |-> "not_json", records |-> <<>>], [kind |-> "answer", records |-> <<>>]}
        \cup {[kind |-> "ticker", records |-> <<ok>>] : ok \in BOOLEAN}
        \cup {[kind |-> "trades", records |-> r] :
                 r \in [1..1 -> BOOLEAN] \cup [1..2 -> BOOLEAN]}

\* Whether the frame cannot be decoded.
Undecodable(frame) ==
    frame.kind = "not_json" \/ \E i \in DOMAIN frame.records : ~frame.records[i]

\* The records before the first one that lacks a required field.
RECURSIVE GoodPrefix(_)
GoodPrefix(records) ==
    IF records = <<>> \/ ~Head(records) THEN 0
    ELSE 1 + GoodPrefix(Tail(records))

\* _handle_quote_tick and _handle_trade_tick: the quote is built and added
\* inside one try; the trades are built and added one by one inside one try,
\* so the KeyError of a record ends the for loop after the records before
\* it were added.  Either except clause counts one error and returns.
HandleTick(frame) ==
    LET good == GoodPrefix(frame.records)
        bad == good < Len(frame.records)
    IN [quotes |-> IF frame.kind = "ticker" THEN good ELSE 0,
        trades |-> IF frame.kind = "trades" THEN good ELSE 0,
        errors |-> IF bad THEN 1 ELSE 0]

\* The body of the loop of _process_messages for one frame: what it adds to
\* the buffer and to self.stats.
ProcessFrame(frame) ==
    IF frame.kind = "not_json"
    THEN [quotes |-> 0, trades |-> 0, errors |-> 1, ticks_processed |-> 0]
    ELSE IF frame.kind = "answer"
    THEN [quotes |-> 0, trades |-> 0, errors |-> 0, ticks_processed |-> 0]
    ELSE LET h == HandleTick(frame)
         IN [quotes |-> h.quotes, trades |-> h.trades, errors |-> h.errors,
             ticks_processed |-> 1]

NoFrame == [done |-> FALSE, frame |-> [kind |-> "answer", records |-> <<>>],
            added |-> 0, errors |-> 0]

FramesIdle ==
    /\ framesRead = 0
    /\ frameStats = [errors |-> 0, ticks_processed |-> 0, quotes_received |-> 0,
                     trades_received |-> 0]
    /\ frameBuffered = [quotes |-> 0, trades |-> 0]
    /\ lastFrame = NoFrame

\* One round of the async for loop.
ReadFrame ==
    \E frame \in WsFrames :
        LET out == ProcessFrame(frame)
        IN /\ framesRead < MaxWsFrames
           /\ framesRead' = framesRead + 1
           /\ frameStats' = [errors |-> frameStats.errors + out.errors,
                             ticks_processed |->
                                 frameStats.ticks_processed + out.ticks_processed,
                             quotes_received |-> frameStats.quotes_received + out.quotes,
                             trades_received |-> frameStats.trades_received + out.trades]
           /\ frameBuffered' = [quotes |-> frameBuffered.quotes + out.quotes,
                                trades |-> frameBuffered.trades + out.trades]
           /\ lastFrame' = [done |-> TRUE, frame |-> frame,
                            added |-> out.quotes + out.trades, errors |-> out.errors]
           /\ UNCHANGED exceptFrames

FramesNext == ReadFrame

(***************************************************************************)
(* The WebSocket of a session, read by `async for message in self.ws` in   *)
(* _process_messages and by `self.collector.ws.recv()` in the control      *)
(* API's _subscribe_instrument and _unsubscribe_instrument.  All of them   *)
(* run on one event loop: _process_messages suspends only inside recv(),   *)
(* when no frame is waiting.  Frames are "data" (a ticker or trades        *)
(* notification) or "confirm" (the answer to a handler's request).         *)
(***************************************************************************)
\* Frames delivered and handler calls in one behaviour.
MaxSockFrames == 4

MaxApiCalls == 2

\* A recv() that any number of coroutines may wait in: the caller gets the
\* oldest frame not yet returned, or the next one to arrive, or its
\* wait_for times out.
RecvUnguarded(inbox, loopInRecv) ==
    IF inbox # <<>> THEN {Head(inbox)} ELSE {"data", "confirm", "timeout"}

\* self.collector.ws.recv() called by a handler.  The websockets connection
\* lets one coroutine at a time wait for the next message: while
\* _process_messages is suspended in recv() the second call raises
\* RuntimeError, which is not the asyncio.TimeoutError the handler catches.
HandlerRecv(inbox, loopInRecv) ==
    IF loopInRecv THEN {"RuntimeError"} ELSE RecvUnguarded(inbox, loopInRecv)

DataFrames(inbox) == Len(SelectSeq(inbox, LAMBDA f : f = "data"))

SockIdle ==
    /\ sockPc = "connecting"
    /\ wsInbox = <<>>
    /\ confirmDue = 0
    /\ apiCalls = 0
    /\ apiResult = "none"
    /\ dataDelivered = 0
    /\ dataDecoded = 0
    /\ dataTaken = 0

\* _websocket_loop: connect, self.ws = ws, _subscribe_to_instruments, and
\* _process_messages up to its first recv().
SockConnect ==
    /\ sockPc = "connecting"
    /\ sockPc' = "reading"
    /\ UNCHANGED <<wsInbox, confirmDue, apiCalls, apiResult, dataDelivered,
                   dataDecoded, dataTaken, exceptSock>>

\* The exchange sends a notification, or answers a handler's request.
SockDeliver ==
    \E f \in {"data", "confirm"} :
        /\ sockPc = "reading"
        /\ Len(wsInbox) + dataDecoded + dataTaken < MaxSockFrames
        /\ f = "confirm" => confirmDue > 0
        /\ wsInbox' = Append(wsInbox, f)
        /\ confirmDue' = IF f = "confirm" THEN confirmDue - 1 ELSE confirmDue
        /\ dataDelivered' = IF f = "data" THEN dataDelivered + 1 ELSE dataDelivered
        /\ UNCHANGED <<sockPc, apiCalls, apiResult, dataDecoded, dataTaken, exceptSock>>

\* _process_messages resumes from recv() and runs its loop body for every
\* frame that is waiting: a frame with 'params' goes to its handler, one
\* without is passed over.  It suspends in recv() again.
LoopWake ==
    /\ sockPc = "reading"
    /\ wsInbox # <<>>
    /\ dataDecoded' = dataDecoded + DataFrames(wsInbox)
    /\ wsInbox' = <<>>
    /\ UNCHANGED <<sockPc, confirmDue, apiCalls, apiResult, dataDelivered, dataTaken,
                   exceptSock>>

\* handle_subscribe / handle_unsubscribe for one instrument: with no
\* WebSocket the change is queued; otherwise _subscribe_instrument sends its
\* request and awaits recv().  A frame without 'error' counts as the
\* confirmation.
ApiInstrumentCall ==
    \E r \in HandlerRecv(wsInbox, sockPc = "reading") :
        /\ apiCalls < MaxApiCalls
        /\ apiCalls' = apiCalls + 1
        /\ IF sockPc = "connecting"
           THEN /\ apiResult' = "queued"
                /\ UNCHANGED <<wsInbox, confirmDue, dataDelivered, dataTaken>>
           ELSE /\ apiResult' = IF r \in {"RuntimeError", "timeout"} THEN "failed"
                                ELSE "done"
                /\ wsInbox' = IF r \in {"data", "confirm"} /\ wsInbox # <<>>
                              THEN Tail(wsInbox) ELSE wsInbox
                /\ confirmDue' = IF r = "confirm" /\ wsInbox = <<>>
                                 THEN confirmDue ELSE confirmDue + 1
                /\ dataDelivered' = IF r = "data" /\ wsInbox = <<>>
                                    THEN dataDelivered + 1 ELSE dataDelivered
                /\ dataTaken' = IF r = "data" THEN dataTaken + 1 ELSE dataTaken
        /\ UNCHANGED <<sockPc, dataDecoded, exceptSock>>

SockNext == SockConnect \/ SockDeliver \/ LoopWake \/ ApiInstrumentCall

(***************************************************************************)
(* _refresh_instruments next to the control API.  The refresh awaits       *)
(* get_top_n_options; when the fetcher's cache is not valid that call      *)
(* waits for the REST answer and the event loop runs other handlers        *)
(* meanwhile.  handle_subscribe and handle_unsubscribe change              *)
(* collector.instruments before their first await.  No lock is taken by    *)
(* either side.                                                            *)
(***************************************************************************)
\* Control API calls and refreshes that are followed.
MaxRaceCalls == 3

\* Names a client of the control API sends.
RaceNames == {Expiring, LaterCall, LaterPut}

NoRaceRefresh == [completed |-> FALSE, suspended |-> FALSE, replaced |-> FALSE,
                  instruments |-> <<>>, added |-> {}, removed |-> {}]

RaceIdle ==
    /\ racePc = "idle"
    /\ raceCalls = 0
    /\ raceAdded = {}
    /\ raceRemoved = {}
    /\ raceLast = NoRaceRefresh

\* The collector has run for up to an hour since start() (the fetcher's
\* cache of a collector on its own is valid during the first hour).
RaceInit ==
    /\ racePc = "idle"
    /\ raceCalls = 0
    /\ raceAdded = {}
    /\ raceRemoved = {}
    /\ raceLast = NoRaceRefresh
    /\ selfWs \in {"none", "open"}
    /\ subscribed = {}
    /\ lastRefresh = NoRefresh
    /\ resubscribed = FALSE
    /\ utcNow \in {CatalogEpoch, CatalogEpoch + cache_duration}
    /\ lastFetch = NoFetch
    /\ lastSuccess = NoFetch.before
    /\ \/ /\ top_n_instruments = 0
          /\ self_instruments \in AssignedPartitions
          /\ cache = NoCache
          /\ cache_timestamp = NoStamp
       \/ /\ top_n_instruments \in {1, 2}
          /\ \E rest \in RestAnswers :
                LET out == get_top_n_options(NoCache, NoStamp, CatalogEpoch,
                                             top_n_instruments, rest)
                IN /\ rest.ok
                   /\ out.ret # <<>>
                   /\ self_instruments = out.ret
                   /\ cache = out.cache
                   /\ cache_timestamp = out.cache_timestamp

\* The assignments of _refresh_instruments once get_top_n_options has
\* returned or raised, and the record of the refresh.
RaceFinish(rest, suspended) ==
    LET out == _refresh_instruments(self_instruments, selfWs, top_n_instruments,
                                    cache, cache_timestamp, utcNow, rest)
    IN /\ self_instruments' = out.instruments
       /\ selfWs' = out.ws
       /\ cache' = out.cache
       /\ cache_timestamp' = out.cache_timestamp
       /\ last_tick_time' = IF out.replaced THEN utcNow - CatalogEpoch
                            ELSE last_tick_time
       /\ raceLast' = [completed |-> TRUE, suspended |-> suspended,
                       replaced |-> out.replaced,
                       instruments |-> out.instruments,
                       added |-> IF suspended THEN raceAdded ELSE {},
                       removed |-> IF suspended THEN raceRemoved ELSE {}]
       /\ racePc' = "idle"

\* _heartbeat_monitor or _instrument_refresh_loop calls
\* _refresh_instruments.  With a valid cache get_top_n_options returns
\* without waiting and the refresh runs to its end; otherwise it waits for
\* the REST answer.
RaceRefreshBegin ==
    /\ running
    /\ racePc = "idle"
    /\ raceCalls < MaxRaceCalls
    /\ raceCalls' = raceCalls + 1
    /\ raceAdded' = {}
    /\ raceRemoved' = {}
    /\ IF _is_cache_valid(cache, cache_timestamp, utcNow)
       THEN RaceFinish([ok |-> TRUE, result |-> <<>>], FALSE)
       ELSE /\ racePc' = "fetching"
            /\ UNCHANGED <<self_instruments, selfWs, cache, cache_timestamp,
                           last_tick_time, raceLast>>
    /\ UNCHANGED <<top_n_instruments, subscribed, lastRefresh, resubscribed,
                   lastFetch, lastSuccess, utcNow, clock, heartPc, lastCheck,
                   loopVars, exceptRace>>

\* The REST request is answered or fails after its retries, and
\* _refresh_instruments goes on to its end.
RaceRefreshEnd ==
    /\ racePc = "fetching"
    /\ \E rest \in RestAnswers : RaceFinish(rest, TRUE)
    /\ UNCHANGED <<raceCalls, raceAdded, raceRemoved,
                   top_n_instruments, subscribed, lastRefresh, resubscribed,
                   lastFetch, lastSuccess, utcNow, clock, heartPc, lastCheck,
                   loopVars, exceptRace>>

\* POST /api/subscribe with one name: a name not owned is appended to
\* collector.instruments.
RaceSubscribe ==
    /\ raceCalls < MaxRaceCalls
    /\ raceCalls' = raceCalls + 1
    /\ \E instrument \in RaceNames :
          IF instrument \in Range(self_instruments)
          THEN UNCHANGED <<self_instruments, raceAdded, raceRemoved>>
          ELSE /\ self_instruments' = AppendInstrument(self_instruments, instrument)
               /\ raceAdded' = raceAdded \cup {instrument}
               /\ raceRemoved' = raceRemoved \ {instrument}
    /\ UNCHANGED <<racePc, raceLast, top_n_instruments, selfWs, subscribed,
                   lastRefresh, resubscribed, catalogVars, heartVars, loopVars,
                   exceptRace>>

\* POST /api/unsubscribe with one name: an owned name is removed from
\* collector.instruments.
RaceUnsubscribe ==
    /\ raceCalls < MaxRaceCalls
    /\ raceCalls' = raceCalls + 1
    /\ \E instrument \in RaceNames :
          IF instrument \notin Range(self_instruments)
          THEN UNCHANGED <<self_instruments, raceAdded, raceRemoved>>
          ELSE /\ self_instruments' = RemoveInstrument(self_instruments, instrument)
               /\ raceRemoved' = raceRemoved \cup {instrument}
               /\ raceAdded' = raceAdded \ {instrument}
    /\ UNCHANGED <<racePc, raceLast, top_n_instruments, selfWs, subscribed,
                   lastRefresh, resubscribed, catalogVars, heartVars, loopVars,
                   exceptRace>>

RaceNext == RaceRefreshBegin \/ RaceRefreshEnd \/ RaceSubscribe \/ RaceUnsubscribe

(***************************************************************************)
(* The collector under main() of ws_tick_collector_multi.py.  SIGTERM and  *)
(* SIGINT run signal_handler, which creates a task of collector.stop()     *)
(* next to the six tasks start() awaits in asyncio.gather; when gather     *)
(* returns, start()'s finally clause awaits stop() once more.  A step of   *)
(* the model runs a coroutine from one await that suspends to the next.    *)
(***************************************************************************)
\* Ticks that arrive in one behaviour.
MaxSigTicks == 2

\* _flush_loop, _heartbeat_monitor, _stats_logger, _periodic_snapshot_loop
\* and _instrument_refresh_loop.
SleepingTasks == {"flush", "heartbeat", "stats", "snapshot", "refresh"}

StopCalls == {"signal", "finally"}

NoStop == [pc |-> "none", drained |-> {}]

SignalIdle ==
    /\ sigRunning = FALSE
    /\ startPc = "returned"
    /\ sessPc = "ended"
    /\ sigWs = "none"
    /\ sleepers = {}
    /\ sigPool = FALSE
    /\ sigQueue = {}
    /\ sigNext = 0
    /\ sigHanded = {}
    /\ sigRefused = {}
    /\ stops = [s \in StopCalls |-> NoStop]

\* start() has connected the writer, set self.running, created the tasks
\* and waits in asyncio.gather.
SignalInit ==
    /\ sigRunning = TRUE
    /\ startPc = "gather"
    /\ sessPc = "connecting"
    /\ sigWs = "none"
    /\ sleepers = SleepingTasks
    /\ sigPool = TRUE
    /\ sigQueue = {}
    /\ sigNext = 0
    /\ sigHanded = {}
    /\ sigRefused = {}
    /\ stops = [s \in StopCalls |-> NoStop]

\* The position of _websocket_loop after its body has ended: the next
\* pass of `while self.running`.
NextPass(flag) == IF flag THEN "connecting" ELSE "ended"

\* websockets.connect returns: self.ws = ws, the subscription is sent and
\* _process_messages starts to iterate over the connection.
SigConnected ==
    /\ sessPc = "connecting"
    /\ sigWs' = "open"
    /\ sessPc' = "reading"
    /\ UNCHANGED <<sigRunning, startPc, sleepers, sigPool, sigQueue, sigNext,
                   sigHanded, sigRefused, stops, exceptSignal>>

\* websockets.connect raises: _handle_reconnect returns at once when
\* self.running is false, and sleeps reconnect_delay seconds otherwise.
SigConnectFails ==
    /\ sessPc = "connecting"
    /\ sessPc' = IF sigRunning THEN "backoff" ELSE NextPass(sigRunning)
    /\ UNCHANGED <<sigRunning, startPc, sigWs, sleepers, sigPool, sigQueue, sigNext,
                   sigHanded, sigRefused, stops, exceptSignal>>

\* The sleep of _handle_reconnect is over.
SigBackoffEnd ==
    /\ sessPc = "backoff"
    /\ sessPc' = NextPass(sigRunning)
    /\ UNCHANGED <<sigRunning, startPc, sigWs, sleepers, sigPool, sigQueue, sigNext,
                   sigHanded, sigRefused, stops, exceptSignal>>

\* _process_messages decodes a frame and adds its tick to the buffer; it
\* does not look at self.running.
SigFrame ==
    /\ sessPc = "reading"
    /\ sigWs = "open"
    /\ sigNext < MaxSigTicks
    /\ sigNext' = sigNext + 1
    /\ sigQueue' = sigQueue \cup {sigNext + 1}
    /\ UNCHANGED <<sigRunning, startPc, sessPc, sigWs, sleepers, sigPool,
                   sigHanded, sigRefused, stops, exceptSignal>>

\* The peer or the network ends the connection.
SigDrop ==
    /\ sessPc = "reading"
    /\ sigWs = "open"
    /\ sigWs' = "closed"
    /\ UNCHANGED <<sigRunning, startPc, sessPc, sleepers, sigPool, sigQueue, sigNext,
                   sigHanded, sigRefused, stops, exceptSignal>>

\* The iteration over a closed connection ends or raises ConnectionClosed,
\* and _websocket_loop goes to its next pass (through _handle_reconnect
\* when it raised).
SigSessionEnds ==
    /\ sessPc = "reading"
    /\ sigWs = "closed"
    /\ \E raised \in BOOLEAN :
          sessPc' = IF raised /\ sigRunning THEN "backoff" ELSE NextPass(sigRunning)
    /\ UNCHANGED <<sigRunning, startPc, sigWs, sleepers, sigPool, sigQueue, sigNext,
                   sigHanded, sigRefused, stops, exceptSignal>>

\* _flush_buffers with the lists it drained: the write hands them to the
\* writer, and raises on a closed pool (the exception is logged).
Written(lists) == IF sigPool THEN sigHanded \cup lists ELSE sigHanded

Refused(lists) == IF sigPool THEN sigRefused ELSE sigRefused \cup lists

\* _flush_loop wakes from its sleep, flushes what is buffered, and tests
\* self.running.
SigFlushLoopRound ==
    /\ "flush" \in sleepers
    /\ sigQueue' = {}
    /\ sigHanded' = Written(sigQueue)
    /\ sigRefused' = Refused(sigQueue)
    /\ sleepers' = IF sigRunning THEN sleepers ELSE sleepers \ {"flush"}
    /\ UNCHANGED <<sigRunning, startPc, sessPc, sigWs, sigPool, sigNext, stops,
                   exceptSignal>>

\* Another task wakes from its sleep after self.running was cleared and
\* returns.  The heartbeat monitor finishes its round first, in which
\* _refresh_instruments may close self.ws.
SigSleeperReturns ==
    /\ ~sigRunning
    /\ \E t \in sleepers \ {"flush"} : \E closes \in BOOLEAN :
          /\ sleepers' = sleepers \ {t}
          /\ sigWs' = IF t = "heartbeat" /\ closes /\ sigWs = "open"
                      THEN "closed" ELSE sigWs
    /\ UNCHANGED <<sigRunning, startPc, sessPc, sigPool, sigQueue, sigNext,
                   sigHanded, sigRefused, stops, exceptSignal>>

\* stop() from the end of _flush_buffers to its next await that
\* suspends: an open connection is closed (await self.ws.close()); with
\* none open, writer.close() starts to close the pool, which takes no
\* further request from then on.
AfterFlush(s, lists) ==
    IF sigWs = "open"
    THEN /\ sigWs' = "closed"
         /\ stops' = [stops EXCEPT ![s] = [pc |-> "pool", drained |-> lists]]
         /\ UNCHANGED sigPool
    ELSE /\ sigPool' = FALSE
         /\ stops' = [stops EXCEPT ![s] = [pc |-> "closing", drained |-> lists]]
         /\ UNCHANGED sigWs

\* stop() up to its first await that suspends: self.running = False and
\* get_and_clear; lists that are not empty are written, and with empty
\* lists stop() goes on.
StopBegins(s) ==
    /\ sigRunning' = FALSE
    /\ sigQueue' = {}
    /\ IF sigQueue # {}
       THEN /\ stops' = [stops EXCEPT ![s] = [pc |-> "flush", drained |-> sigQueue]]
            /\ UNCHANGED <<sigWs, sigPool>>
       ELSE AfterFlush(s, {})

\* signal_handler: asyncio.create_task(collector.stop()), and the task's
\* first step.
SigSignal ==
    /\ startPc = "gather"
    /\ stops["signal"].pc = "none"
    /\ StopBegins("signal")
    /\ UNCHANGED <<startPc, sessPc, sleepers, sigNext, sigHanded, sigRefused,
                   exceptSignal>>

\* asyncio.gather returns when the six tasks have returned, and start()'s
\* finally clause awaits stop().
SigGatherReturns ==
    /\ startPc = "gather"
    /\ sessPc = "ended"
    /\ sleepers = {}
    /\ startPc' = "finally"
    /\ StopBegins("finally")
    /\ UNCHANGED <<sessPc, sleepers, sigNext, sigHanded, sigRefused, exceptSignal>>

\* The write of the drained lists ends, or raises on a closed pool, and
\* stop() goes on.
SigStopFlushed ==
    \E s \in StopCalls :
        /\ stops[s].pc = "flush"
        /\ sigHanded' = Written(stops[s].drained)
        /\ sigRefused' = Refused(stops[s].drained)
        /\ AfterFlush(s, stops[s].drained)
        /\ UNCHANGED <<sigRunning, startPc, sessPc, sleepers, sigQueue, sigNext,
                       exceptSignal>>

\* self.ws.close() has returned: await self.writer.close()
SigStopPool ==
    \E s \in StopCalls :
        /\ stops[s].pc = "pool"
        /\ sigPool' = FALSE
        /\ stops' = [stops EXCEPT ![s].pc = "closing"]
        /\ UNCHANGED <<sigRunning, startPc, sessPc, sigWs, sleepers, sigQueue,
                       sigNext, sigHanded, sigRefused, exceptSignal>>

\* The pool is closed and stop() returns; after the stop() of the finally
\* clause start() returns.
SigStopReturns ==
    \E s \in StopCalls :
        /\ stops[s].pc = "closing"
        /\ stops' = [stops EXCEPT ![s].pc = "done"]
        /\ startPc' = IF s = "finally" THEN "returned" ELSE startPc
        /\ UNCHANGED <<sigRunning, sessPc, sigWs, sleepers, sigPool, sigQueue,
                       sigNext, sigHanded, sigRefused, exceptSignal>>

\* The steps the event loop runs once they are ready.
SigProgress ==
    \/ SigConnected
    \/ SigConnectFails
    \/ SigBackoffEnd
    \/ SigSessionEnds
    \/ SigFlushLoopRound
    \/ SigSleeperReturns
    \/ SigGatherReturns
    \/ SigStopFlushed
    \/ SigStopPool
    \/ SigStopReturns

SignalNext == SigProgress \/ SigFrame \/ SigDrop \/ SigSignal

(***************************************************************************)
(* TickWriter, the writer of the ETH-only collector, next to               *)
(* MultiCurrencyTickWriter(currency='ETH'): the same lists are handed to   *)
(* both, each writing to its own copy of the store.  The two classes have  *)
(* the same batching loop and retry loop; their statements differ.         *)
(***************************************************************************)
\* TickWriter._write_quote_batch: INSERT INTO eth_option_quotes ...
\* ON CONFLICT (timestamp, instrument) DO NOTHING
EthInsertQuote(table, q) ==
    IF QuoteConflicts(table, q) = {}
    THEN table \cup {[timestamp |-> q.timestamp, instrument |-> q.instrument_name,
                      cols |-> q.cols]}
    ELSE table

\* TickWriter._write_trade_batch: INSERT INTO eth_option_trades ...
\* ON CONFLICT (timestamp, instrument, trade_id) DO NOTHING
EthInsertTrade(table, t) ==
    IF \E r \in table : /\ r.timestamp = t.timestamp
                        /\ r.instrument = t.instrument_name
                        /\ r.trade_id = t.trade_id
    THEN table
    ELSE table \cup {TradeRow(t)}

RECURSIVE EthExecuteManyQuotes(_, _)
EthExecuteManyQuotes(table, rows) ==
    IF rows = <<>> THEN table
    ELSE EthExecuteManyQuotes(EthInsertQuote(table, Head(rows)), Tail(rows))

RECURSIVE EthExecuteManyTrades(_, _)
EthExecuteManyTrades(table, rows) ==
    IF rows = <<>> THEN table
    ELSE EthExecuteManyTrades(EthInsertTrade(table, Head(rows)), Tail(rows))

\* TickWriter.write_quotes / write_trades: the loop over the sub-batches.
RECURSIVE EthWriteQuoteBatches(_, _, _, _, _)
EthWriteQuoteBatches(table, rows, size, k, failAt) ==
    IF k > NumBatches(rows, size) \/ k = failAt THEN table
    ELSE EthWriteQuoteBatches(EthExecuteManyQuotes(table, SubBatch(rows, size, k)),
                              rows, size, k + 1, failAt)

RECURSIVE EthWriteTradeBatches(_, _, _, _, _)
EthWriteTradeBatches(table, rows, size, k, failAt) ==
    IF k > NumBatches(rows, size) \/ k = failAt THEN table
    ELSE EthWriteTradeBatches(EthExecuteManyTrades(table, SubBatch(rows, size, k)),
                              rows, size, k + 1, failAt)

TwinIdle ==
    /\ ethQuotes = {}
    /\ ethTrades = {}

\* The quotes handed to both writers: every shape and value for one
\* (timestamp, instrument).
TwinQuoteInputs == {q \in QuoteInputs : q.timestamp = 1}

\* write_quotes(rows) on both writers.
TwinWriteQuotes ==
    /\ \E rows \in Lists(TwinQuoteInputs) :
          \E failAt \in 0..NumBatches(rows, batch_size) :
              /\ write_quotes(rows, failAt)
              /\ ethQuotes' = EthWriteQuoteBatches(ethQuotes, rows, batch_size, 1, failAt)
    /\ UNCHANGED <<ethTrades, exceptTwin>>

\* write_trades(rows) on both writers.
TwinWriteTrades ==
    /\ \E rows \in Lists(TradeInputs) :
          \E failAt \in 0..NumBatches(rows, batch_size) :
              /\ write_trades(rows, failAt)
              /\ ethTrades' = EthWriteTradeBatches(ethTrades, rows, batch_size, 1, failAt)
    /\ UNCHANGED <<ethQuotes, exceptTwin>>

TwinNext == TwinWriteQuotes \/ TwinWriteTrades

(***************************************************************************)
(* Specifications.                                                         *)
(***************************************************************************)
BufferIdle == BufferInit

InitBuffer == BufferInit /\ WriterIdle /\ PartIdle /\ ExpIdle /\ FleetIdle /\ MgrIdle /\ LoopIdle /\ ThreadIdle /\ FlushIdle /\ RetryIdle /\ SessionIdle /\ LifeIdle /\ HeartIdle /\ CatalogIdle /\ RefreshIdle /\ OrchIdle /\ HttpIdle /\ AuditIdle /\ FundIdle /\ StoreIdle /\ FramesIdle /\ SockIdle /\ RaceIdle /\ SignalIdle /\ TwinIdle

SpecBuffer == InitBuffer /\ [][BufferNext]_vars

InitWriter == WriterInit /\ BufferIdle /\ PartIdle /\ ExpIdle /\ FleetIdle /\ MgrIdle /\ LoopIdle /\ ThreadIdle /\ FlushIdle /\ RetryIdle /\ SessionIdle /\ LifeIdle /\ HeartIdle /\ CatalogIdle /\ RefreshIdle /\ OrchIdle /\ HttpIdle /\ AuditIdle /\ FundIdle /\ StoreIdle /\ FramesIdle /\ SockIdle /\ RaceIdle /\ SignalIdle /\ TwinIdle

SpecWriter == InitWriter /\ [][WriterNext]_vars

InitPart == PartInit /\ BufferIdle /\ WriterIdle /\ ExpIdle /\ FleetIdle /\ MgrIdle /\ LoopIdle /\ ThreadIdle /\ FlushIdle /\ RetryIdle /\ SessionIdle /\ LifeIdle /\ HeartIdle /\ CatalogIdle /\ RefreshIdle /\ OrchIdle /\ HttpIdle /\ AuditIdle /\ FundIdle /\ StoreIdle /\ FramesIdle /\ SockIdle /\ RaceIdle /\ SignalIdle /\ TwinIdle

SpecPartition == InitPart /\ [][PartNext]_vars

InitExpiry == ExpInit /\ BufferIdle /\ WriterIdle /\ PartIdle /\ FleetIdle /\ MgrIdle /\ LoopIdle /\ ThreadIdle /\ FlushIdle /\ RetryIdle /\ SessionIdle /\ LifeIdle /\ HeartIdle /\ CatalogIdle /\ RefreshIdle /\ OrchIdle /\ HttpIdle /\ AuditIdle /\ FundIdle /\ StoreIdle /\ FramesIdle /\ SockIdle /\ RaceIdle /\ SignalIdle /\ TwinIdle

SpecExpiry == InitExpiry /\ [][ExpNext]_vars

InitControlApi == FleetInit /\ MgrIdle /\ BufferIdle /\ WriterIdle /\ PartIdle /\ ExpIdle /\ LoopIdle /\ ThreadIdle /\ FlushIdle /\ RetryIdle /\ SessionIdle /\ LifeIdle /\ HeartIdle /\ CatalogIdle /\ RefreshIdle /\ OrchIdle /\ HttpIdle /\ AuditIdle /\ FundIdle /\ StoreIdle /\ FramesIdle /\ SockIdle /\ RaceIdle /\ SignalIdle /\ TwinIdle

SpecControlApi == InitControlApi /\ [][ControlApiNext]_vars

InitFleet == FleetInit /\ MgrInit /\ BufferIdle /\ WriterIdle /\ PartIdle /\ ExpIdle /\ LoopIdle /\ ThreadIdle /\ FlushIdle /\ RetryIdle /\ SessionIdle /\ LifeIdle /\ HeartIdle /\ CatalogIdle /\ RefreshIdle /\ OrchIdle /\ HttpIdle /\ AuditIdle /\ FundIdle /\ StoreIdle /\ FramesIdle /\ SockIdle /\ RaceIdle /\ SignalIdle /\ TwinIdle

SpecFleet == InitFleet /\ [][FleetNext]_vars

InitLoop ==
    LoopInit /\ FleetIdle /\ MgrIdle /\ BufferIdle /\ WriterIdle /\ PartIdle /\ ExpIdle /\ ThreadIdle /\ FlushIdle /\ RetryIdle /\ SessionIdle /\ LifeIdle /\ HeartIdle /\ CatalogIdle /\ RefreshIdle /\ OrchIdle /\ HttpIdle /\ AuditIdle /\ FundIdle /\ StoreIdle /\ FramesIdle /\ SockIdle /\ RaceIdle /\ SignalIdle /\ TwinIdle

SpecReconnect == InitLoop /\ [][LoopNext]_vars

InitThreads == BufferInit /\ ThreadInit /\ WriterIdle /\ PartIdle /\ ExpIdle /\ FleetIdle /\ MgrIdle /\ LoopIdle /\ FlushIdle /\ RetryIdle /\ SessionIdle /\ LifeIdle /\ HeartIdle /\ CatalogIdle /\ RefreshIdle /\ OrchIdle /\ HttpIdle /\ AuditIdle /\ FundIdle /\ StoreIdle /\ FramesIdle /\ SockIdle /\ RaceIdle /\ SignalIdle /\ TwinIdle

SpecThreads == InitThreads /\ [][ThreadNext]_vars

InitFlush ==
    /\ BufferInit /\ FlushInit /\ running = TRUE
    /\ reconnect_delay = 1 /\ loopPc = "exited" /\ connection_attempts = 0
    /\ failures = 0 /\ slept = 0
    /\ WriterIdle /\ PartIdle /\ ExpIdle /\ FleetIdle /\ MgrIdle /\ ThreadIdle /\ RetryIdle /\ SessionIdle /\ LifeIdle /\ HeartIdle /\ CatalogIdle /\ RefreshIdle /\ OrchIdle /\ HttpIdle /\ AuditIdle /\ FundIdle /\ StoreIdle /\ FramesIdle /\ SockIdle /\ RaceIdle /\ SignalIdle /\ TwinIdle

SpecFlush == InitFlush /\ [][FlushNext]_vars

InitRetry ==
    /\ RetryInit /\ WriterIdle
    /\ BufferIdle /\ PartIdle /\ ExpIdle /\ FleetIdle /\ MgrIdle /\ LoopIdle /\ ThreadIdle /\ FlushIdle /\ SessionIdle /\ LifeIdle /\ HeartIdle /\ CatalogIdle /\ RefreshIdle /\ OrchIdle /\ HttpIdle /\ AuditIdle /\ FundIdle /\ StoreIdle /\ FramesIdle /\ SockIdle /\ RaceIdle /\ SignalIdle /\ TwinIdle

SpecRetry == InitRetry /\ [][RetryNext]_vars

InitSession ==
    /\ FleetInit /\ SessionInit
    /\ MgrIdle /\ BufferIdle /\ WriterIdle /\ PartIdle /\ ExpIdle /\ LoopIdle /\ ThreadIdle /\ FlushIdle /\ RetryIdle /\ LifeIdle /\ HeartIdle /\ CatalogIdle /\ RefreshIdle /\ OrchIdle /\ HttpIdle /\ AuditIdle /\ FundIdle /\ StoreIdle /\ FramesIdle /\ SockIdle /\ RaceIdle /\ SignalIdle /\ TwinIdle

SpecSession == InitSession /\ [][SessionNext]_vars

InitLife ==
    /\ LifeInit /\ BufferInit
    /\ running = FALSE /\ reconnect_delay = 1 /\ loopPc = "exited"
    /\ connection_attempts = 0 /\ failures = 0 /\ slept = 0
    /\ FlushIdle
    /\ WriterIdle /\ PartIdle /\ ExpIdle /\ FleetIdle /\ MgrIdle /\ ThreadIdle /\ RetryIdle /\ SessionIdle /\ HeartIdle /\ CatalogIdle /\ RefreshIdle /\ OrchIdle /\ HttpIdle /\ AuditIdle /\ FundIdle /\ StoreIdle /\ FramesIdle /\ SockIdle /\ RaceIdle /\ SignalIdle /\ TwinIdle

SpecLife == InitLife /\ [][LifeNext]_vars

InitHeart ==
    /\ HeartInit /\ running = TRUE
    /\ reconnect_delay = 1 /\ loopPc = "exited" /\ connection_attempts = 0
    /\ failures = 0 /\ slept = 0
    /\ BufferIdle /\ WriterIdle /\ PartIdle /\ ExpIdle /\ FleetIdle /\ MgrIdle /\ ThreadIdle /\ FlushIdle /\ RetryIdle /\ SessionIdle /\ LifeIdle /\ CatalogIdle /\ RefreshIdle /\ OrchIdle /\ HttpIdle /\ AuditIdle /\ FundIdle /\ StoreIdle /\ FramesIdle /\ SockIdle /\ RaceIdle /\ SignalIdle /\ TwinIdle

SpecHeart == InitHeart /\ [][HeartNext]_vars

InitCatalog == CatalogInit /\ BufferIdle /\ WriterIdle /\ PartIdle /\ ExpIdle /\ FleetIdle /\ MgrIdle /\ LoopIdle /\ ThreadIdle /\ FlushIdle /\ RetryIdle /\ SessionIdle /\ LifeIdle /\ HeartIdle /\ RefreshIdle /\ OrchIdle /\ HttpIdle /\ AuditIdle /\ FundIdle /\ StoreIdle /\ FramesIdle /\ SockIdle /\ RaceIdle /\ SignalIdle /\ TwinIdle

SpecCatalog == InitCatalog /\ [][CatalogNext]_vars

InitRefresh ==
    /\ RefreshInit /\ running = TRUE
    /\ reconnect_delay = 1 /\ loopPc = "exited" /\ connection_attempts = 0
    /\ failures = 0 /\ slept = 0
    /\ BufferIdle /\ WriterIdle /\ PartIdle /\ ExpIdle /\ FleetIdle /\ MgrIdle /\ ThreadIdle /\ FlushIdle /\ RetryIdle /\ SessionIdle /\ LifeIdle /\ HeartIdle /\ OrchIdle /\ HttpIdle /\ AuditIdle /\ FundIdle /\ StoreIdle /\ FramesIdle /\ SockIdle /\ RaceIdle /\ SignalIdle /\ TwinIdle

SpecRefresh == InitRefresh /\ [][RefreshNext]_vars

InitReconnectBuffer ==
    /\ LoopInit /\ BufferInit /\ FlushInit
    /\ WriterIdle /\ PartIdle /\ ExpIdle /\ FleetIdle /\ MgrIdle /\ ThreadIdle /\ RetryIdle /\ SessionIdle /\ LifeIdle /\ HeartIdle /\ CatalogIdle /\ RefreshIdle /\ OrchIdle /\ HttpIdle /\ AuditIdle /\ FundIdle /\ StoreIdle /\ FramesIdle /\ SockIdle /\ RaceIdle /\ SignalIdle /\ TwinIdle

SpecReconnectBuffer == InitReconnectBuffer /\ [][ReconnectBufferNext]_vars

InitOrch ==
    /\ OrchInit /\ BufferInit
    /\ running = FALSE /\ reconnect_delay = 1 /\ loopPc = "exited"
    /\ connection_attempts = 0 /\ failures = 0 /\ slept = 0
    /\ FlushIdle
    /\ WriterIdle /\ PartIdle /\ ExpIdle /\ FleetIdle /\ MgrIdle /\ ThreadIdle /\ RetryIdle /\ SessionIdle /\ HeartIdle /\ CatalogIdle /\ RefreshIdle /\ HttpIdle /\ AuditIdle /\ FundIdle /\ StoreIdle /\ FramesIdle /\ SockIdle /\ RaceIdle /\ SignalIdle /\ TwinIdle

SpecOrchestrator == InitOrch /\ [][OrchNext]_vars

InitFutures == FuturesInit /\ BufferIdle /\ WriterIdle /\ PartIdle /\ FleetIdle /\ MgrIdle /\ LoopIdle /\ ThreadIdle /\ FlushIdle /\ RetryIdle /\ SessionIdle /\ LifeIdle /\ HeartIdle /\ CatalogIdle /\ RefreshIdle /\ OrchIdle /\ HttpIdle /\ AuditIdle /\ FundIdle /\ StoreIdle /\ FramesIdle /\ SockIdle /\ RaceIdle /\ SignalIdle /\ TwinIdle

SpecFutures == InitFutures /\ [][CallOracle]_vars

InitHttp == FleetInit /\ HttpIdle /\ MgrIdle /\ BufferIdle /\ WriterIdle /\ PartIdle /\ ExpIdle /\ LoopIdle /\ ThreadIdle /\ FlushIdle /\ RetryIdle /\ SessionIdle /\ LifeIdle /\ HeartIdle /\ CatalogIdle /\ RefreshIdle /\ OrchIdle /\ AuditIdle /\ FundIdle /\ StoreIdle /\ FramesIdle /\ SockIdle /\ RaceIdle /\ SignalIdle /\ TwinIdle

SpecHttp == InitHttp /\ [][HttpNext]_vars

InitSync == SyncInit /\ MgrInit /\ BufferIdle /\ WriterIdle /\ PartIdle /\ ExpIdle /\ LoopIdle /\ ThreadIdle /\ FlushIdle /\ RetryIdle /\ SessionIdle /\ LifeIdle /\ HeartIdle /\ CatalogIdle /\ RefreshIdle /\ OrchIdle /\ HttpIdle /\ FundIdle /\ StoreIdle /\ FramesIdle /\ SockIdle /\ RaceIdle /\ SignalIdle /\ TwinIdle

SpecSync == InitSync /\ [][SyncNext]_vars

InitFunding == FundInit /\ FleetIdle /\ HttpIdle /\ MgrIdle /\ BufferIdle /\ WriterIdle /\ PartIdle /\ ExpIdle /\ LoopIdle /\ ThreadIdle /\ FlushIdle /\ RetryIdle /\ SessionIdle /\ LifeIdle /\ HeartIdle /\ CatalogIdle /\ RefreshIdle /\ OrchIdle /\ AuditIdle /\ StoreIdle /\ FramesIdle /\ SockIdle /\ RaceIdle /\ SignalIdle /\ TwinIdle

SpecFunding == InitFunding /\ [][FundNext]_vars

InitStore == StoreInit /\ FundIdle /\ FleetIdle /\ HttpIdle /\ MgrIdle /\ BufferIdle /\ WriterIdle /\ PartIdle /\ ExpIdle /\ LoopIdle /\ ThreadIdle /\ FlushIdle /\ RetryIdle /\ SessionIdle /\ LifeIdle /\ HeartIdle /\ CatalogIdle /\ RefreshIdle /\ OrchIdle /\ AuditIdle /\ FramesIdle /\ SockIdle /\ RaceIdle /\ SignalIdle /\ TwinIdle

SpecStore == InitStore /\ [][StoreNext]_vars

InitFrames == FramesIdle /\ StoreIdle /\ FundIdle /\ FleetIdle /\ HttpIdle /\ MgrIdle /\ BufferIdle /\ WriterIdle /\ PartIdle /\ ExpIdle /\ LoopIdle /\ ThreadIdle /\ FlushIdle /\ RetryIdle /\ SessionIdle /\ LifeIdle /\ HeartIdle /\ CatalogIdle /\ RefreshIdle /\ OrchIdle /\ AuditIdle /\ SockIdle /\ RaceIdle /\ SignalIdle /\ TwinIdle

SpecFrames == InitFrames /\ [][FramesNext]_vars

InitSock == SockIdle /\ FramesIdle /\ StoreIdle /\ FundIdle /\ FleetIdle /\ HttpIdle /\ MgrIdle /\ BufferIdle /\ WriterIdle /\ PartIdle /\ ExpIdle /\ LoopIdle /\ ThreadIdle /\ FlushIdle /\ RetryIdle /\ SessionIdle /\ LifeIdle /\ HeartIdle /\ CatalogIdle /\ RefreshIdle /\ OrchIdle /\ AuditIdle /\ RaceIdle /\ SignalIdle /\ TwinIdle

SpecSock == InitSock /\ [][SockNext]_vars

InitRace ==
    /\ RaceInit /\ running = TRUE
    /\ reconnect_delay = 1 /\ loopPc = "exited" /\ connection_attempts = 0
    /\ failures = 0 /\ slept = 0
    /\ BufferIdle /\ WriterIdle /\ PartIdle /\ ExpIdle /\ FleetIdle /\ MgrIdle /\ ThreadIdle /\ FlushIdle /\ RetryIdle /\ SessionIdle /\ LifeIdle /\ HeartIdle /\ OrchIdle /\ HttpIdle /\ AuditIdle /\ FundIdle /\ StoreIdle /\ FramesIdle /\ SockIdle /\ SignalIdle /\ TwinIdle

SpecRace == InitRace /\ [][RaceNext]_vars

InitSignal == SignalInit /\ SockIdle /\ FramesIdle /\ StoreIdle /\ FundIdle /\ FleetIdle /\ HttpIdle /\ MgrIdle /\ BufferIdle /\ WriterIdle /\ PartIdle /\ ExpIdle /\ LoopIdle /\ ThreadIdle /\ FlushIdle /\ RetryIdle /\ SessionIdle /\ LifeIdle /\ HeartIdle /\ CatalogIdle /\ RefreshIdle /\ OrchIdle /\ AuditIdle /\ RaceIdle /\ TwinIdle

SpecSignal == InitSignal /\ [][SignalNext]_vars

\* The event loop runs every task that is ready.
SpecSignalFair == SpecSignal /\ WF_vars(SigProgress)

InitTwin == WriterInit /\ TwinIdle /\ BufferIdle /\ PartIdle /\ ExpIdle /\ FleetIdle /\ MgrIdle /\ LoopIdle /\ ThreadIdle /\ FlushIdle /\ RetryIdle /\ SessionIdle /\ LifeIdle /\ HeartIdle /\ CatalogIdle /\ RefreshIdle /\ OrchIdle /\ HttpIdle /\ AuditIdle /\ FundIdle /\ StoreIdle /\ FramesIdle /\ SockIdle /\ RaceIdle /\ SignalIdle

SpecTwin == InitTwin /\ [][TwinNext]_vars

(***************************************************************************)
(* C1: as long as clear_all has not been called, every tick added to the   *)
(* buffer is either still in its queue or was returned by exactly one      *)
(* get_and_clear; an add to a full queue evicts nothing.                   *)
(***************************************************************************)
C1_NoTickLost ==
    ~clearAllCalled =>
        \A t \in 1..(nextTick - 1) :
            /\ (t \in Buffered) => returned[t] = 0
            /\ (t \notin Buffered) => returned[t] = 1

\* An add has been made to a quotes queue that was full, with no clear_all.
C1_FullQueueAdd ==
    /\ ~clearAllCalled
    /\ Len(quotes) = MaxQuotes
    /\ stats["quotes"].ticks_received > MaxQuotes + stats["quotes"].ticks_written

(***************************************************************************)
(* C2: in the quotes table every column of a row holds the last non-null   *)
(* value written for it under the row's (timestamp, instrument): a later   *)
(* null leaves the stored value, a later non-null value replaces it.       *)
(***************************************************************************)
C2_NullPreservingUpsert ==
    \A k \in QuoteKeys :
        /\ lastNonNull[k].written <=>
               \E r \in quotesTable : r.timestamp = k[1] /\ r.instrument = k[2]
        /\ \A r \in quotesTable :
               (r.timestamp = k[1] /\ r.instrument = k[2])
                   => r.cols = lastNonNull[k].cols

\* A row that took its book columns from one write and its mark from another
\* write of a different value.
C2_MergedRow ==
    \E r \in quotesTable :
        /\ r.cols["best_bid_price"] = "1"
        /\ r.cols["mark_price"] = "2"

(***************************************************************************)
(* C3: the quotes table holds at most one row per (timestamp, instrument)  *)
(* and the trades table at most one row per (trade_id, instrument).        *)
(***************************************************************************)
C3_KeyUniqueness ==
    /\ \A r1, r2 \in quotesTable :
           (r1.timestamp = r2.timestamp /\ r1.instrument = r2.instrument) => r1 = r2
    /\ \A r1, r2 \in tradesTable :
           (r1.trade_id = r2.trade_id /\ r1.instrument = r2.instrument) => r1 = r2

\* Both tables hold every key, and a quote row was rewritten.
C3_AllKeysWritten ==
    /\ Cardinality(quotesTable) = Cardinality(QuoteKeys)
    /\ Cardinality(tradesTable) = Cardinality(TradeIds)
    /\ \E r \in quotesTable : r.cols["best_bid_price"] # r.cols["mark_price"]

(***************************************************************************)
(* C4: in every reachable state each collector owns at most                *)
(* max_per_partition instruments (250 in the deployment) and so holds at   *)
(* most twice as many channels, after startup partitioning, /api/subscribe *)
(* calls and lifecycle-manager sync cycles.                                *)
(***************************************************************************)
C4_OwnedWithinCap ==
    \A c \in ConnectionIds :
        /\ Len(collectors[c].instruments) <= MaxPerPartition
        /\ Cardinality(collectors[c].subscribed_channels) <= 2 * MaxPerPartition

\* A collector started on its partition has answered the manager's
\* subscribe for another partition's instrument and holds its channels.
C4_OverCapAfterSync ==
    /\ cycle.done
    /\ \E c \in ConnectionIds :
          /\ Len(collectors[c].instruments) > MaxPerPartition
          /\ Cardinality(collectors[c].subscribed_channels) > 2 * MaxPerPartition

(***************************************************************************)
(* C5: in a fleet of collectors started on distinct connection ids plus    *)
(* one lifecycle manager, each instrument is in the instrument list of at  *)
(* most one collector, also after the manager handled a new listing.       *)
(***************************************************************************)
Owners(n) == {c \in ConnectionIds : n \in Range(collectors[c].instruments)}

\* Stated for the states in which no option has expired yet, so that every
\* collector partitioned the same catalog at its startup.
C5_SingleOwner ==
    (\A n \in Instruments : exchange[n] # "expired") =>
        \A n \in Instruments : Cardinality(Owners(n)) <= 1

\* The option listed after startup is owned by both collectors.
C5_NewListingOwnedTwice ==
    /\ \A n \in Instruments : exchange[n] # "expired"
    /\ \A c \in ConnectionIds : collectors[c].started
    /\ Owners("ETH-C") = ConnectionIds

(***************************************************************************)
(* C6: the k-th consecutive failure of the WebSocket loop since the last   *)
(* successful connect (or since the start) waits 1, 2, 4, 8, 16, 32, 60,   *)
(* 60, ... seconds, and while a connection is up the delay that the next   *)
(* failure will wait is 1 second.                                          *)
(***************************************************************************)
BackoffSchedule == <<1, 2, 4, 8, 16, 32, 60>>

ScheduledDelay(k) == IF k <= Len(BackoffSchedule) THEN BackoffSchedule[k] ELSE 60

C6_BackoffSchedule ==
    /\ loopPc = "sleep" => slept = ScheduledDelay(failures)
    /\ loopPc = "session" => reconnect_delay = 1

\* The eighth failure in a row sleeps at the cap.
C6_EighthFailure ==
    /\ loopPc = "sleep"
    /\ failures = 8
    /\ slept = 60

(***************************************************************************)
(* C7: a _sync_instruments cycle with tracked set T and active set A, in   *)
(* which no database call failed, logs exactly one instrument_expired      *)
(* event for each instrument of T \ A, exactly one instrument_listed event *)
(* for each instrument of A \ T and none of either for any other           *)
(* instrument, whatever the collectors answered.                           *)
(***************************************************************************)
C7_OneEventPerChange ==
    (cycle.done /\ ~cycle.dbFailed) =>
        \A n \in Instruments :
            /\ cycle.expired[n] = IF n \in cycle.T \ cycle.A THEN 1 ELSE 0
            /\ cycle.listed[n] = IF n \in cycle.A \ cycle.T THEN 1 ELSE 0

\* A cycle with the database up ended with an expiry logged and a listing
\* not logged.
C7_ListingNotLogged ==
    /\ cycle.done
    /\ ~cycle.dbFailed
    /\ cycle.T \ cycle.A = {"ETH-A"}
    /\ cycle.A \ cycle.T = {"ETH-C"}
    /\ cycle.expired["ETH-A"] = 1
    /\ cycle.listed["ETH-C"] = 0

(***************************************************************************)
(* C8: when /api/subscribe names an instrument X that an earlier           *)
(* /api/subscribe call on the collector named, with no /api/unsubscribe    *)
(* for X in between, the response lists X under already_subscribed and not *)
(* under subscribed, and a call naming only such instruments leaves the    *)
(* instrument list as long as it was; whatever the WebSocket did in the    *)
(* earlier call.                                                           *)
(***************************************************************************)
C8_ResubscribeIsNoOp ==
    \A c \in ConnectionIds :
        LET call == lastCall[c]
        IN (call.op = "subscribe" /\ call.status = 200) =>
              /\ \A x \in call.repeated :
                    /\ x \in Range(call.already)
                    /\ x \notin Range(call.done)
                    /\ x \notin Range(call.failed)
              /\ Range(call.request) \subseteq call.repeated =>
                    /\ call.total_instruments = call.sizeBefore
                    /\ Len(collectors[c].instruments) = call.sizeBefore

\* A second subscribe for an instrument whose first subscribe failed on the
\* WebSocket.
C8_SecondCallAfterFailure ==
    \E c \in ConnectionIds :
        /\ lastCall[c].op = "subscribe"
        /\ lastCall[c].request = <<"ETH-C">>
        /\ lastCall[c].afterFailure = {"ETH-C"}
        /\ lastCall[c].already = <<"ETH-C">>

(***************************************************************************)
(* C9: partition_instruments returns groups of at most max_per_partition   *)
(* names whose concatenation, in order, is the list of names; so with      *)
(* distinct names the groups are pairwise disjoint and nothing is left out.*)
(***************************************************************************)
RECURSIVE Concat(_)
Concat(groups) == IF groups = <<>> THEN <<>> ELSE Head(groups) \o Concat(Tail(groups))

Distinct(names) == \A i, j \in DOMAIN names : names[i] = names[j] => i = j

C9_PartitionCoversInOrder ==
    partRet.done =>
        /\ \A g \in DOMAIN partRet.groups :
               Len(partRet.groups[g]) <= partArgs.max_per_partition
        /\ Concat(partRet.groups) = InstrumentNames(partArgs.instruments)
        /\ Distinct(InstrumentNames(partArgs.instruments)) =>
               \A g, h \in DOMAIN partRet.groups :
                   g # h => Range(partRet.groups[g]) \cap Range(partRet.groups[h]) = {}

\* Three distinct names were split into a full group and a shorter last group.
C9_TwoGroups ==
    /\ partRet.done
    /\ Distinct(InstrumentNames(partArgs.instruments))
    /\ Len(partRet.groups) = 2
    /\ Len(partRet.groups[1]) = 2
    /\ Len(partRet.groups[2]) = 1

(***************************************************************************)
(* C10: for an option name CCY-DDMMMYY-STRIKE-C/P is_instrument_expired is *)
(* true exactly when now is at or after 08:00 UTC of the named date plus   *)
(* the buffer; for a name that cannot be parsed it is false and            *)
(* filter_expired_instruments keeps the name.                              *)
(***************************************************************************)
C10_ExpiredIffPastSettlement ==
    expRet.done =>
        IF expArgs.named # NoDate
        THEN expRet.expired <=>
                 expArgs.now >= Settlement(expArgs.named) + expArgs.buffer_minutes * 60
        ELSE expRet.expired = FALSE /\ expRet.kept = <<expArgs.name>>

\* An option classified expired at exactly settlement plus the buffer.
C10_ExpiredAtBoundary ==
    /\ expRet.done
    /\ expArgs.named = <<2025, 11, 10>>
    /\ expArgs.buffer_minutes = 5
    /\ expArgs.now = Settlement(<<2025, 11, 10>>) + 300
    /\ expRet.expired
    /\ expRet.kept = <<>>

C12_FlushAtThreshold == ~(running /\ should_flush /\ overdue > 0)

\* The quotes queue is full, the collector runs, and the flush loop has slept
\* on for two seconds since.
C12_ThresholdWaits ==
    /\ running
    /\ flushPc = "sleep"
    /\ Len(quotes) = MaxQuotes
    /\ overdue = 2
    /\ flushed = {}

(***************************************************************************)
(* C13: a sub-batch write that keeps failing is retried three times after  *)
(* the first failure, with sleeps of 1 s, 2 s and 4 s before the           *)
(* successive retries, and the error is raised only after the last retry   *)
(* failed; a sub-batch that is committed on an attempt is not attempted    *)
(* again.                                                                  *)
(***************************************************************************)
RetrySchedule == <<1, 2, 4>>

C13_ThreeRetries ==
    /\ Len(sleeps) <= Len(RetrySchedule)
    /\ sleeps = SubSeq(RetrySchedule, 1, Len(sleeps))
    /\ retryPc = "raised" => sleeps = RetrySchedule /\ attemptsMade = Len(RetrySchedule) + 1
    /\ retryPc = "returned" => attemptsMade = Len(sleeps) + 1

\* A call raised after its third attempt, having slept 1 s and 2 s only.
C13_RaisedAfterTwoRetries ==
    /\ retryPc = "raised"
    /\ attemptsMade = 3
    /\ sleeps = <<1, 2>>
    /\ failed_writes = 1

(***************************************************************************)
(* C14: no step of the writer removes or changes a row of the trades       *)
(* table: writing a trade whose (trade_id, instrument) is already stored   *)
(* leaves the stored row as it is in every column, whatever the incoming   *)
(* timestamp, price, amount or direction.                                  *)
(***************************************************************************)
C14_TradeRowsImmutable == [][\A r \in tradesTable : r \in tradesTable']_vars

\* A committed _write_trade_batch call held a trade whose key is stored with
\* other column values than the incoming ones.
C14_DuplicateTradeIgnored ==
    /\ retryPc = "returned"
    /\ retryCall.kind = "trades"
    /\ \E i \in DOMAIN retryCall.rows :
          \E r \in tradesTable :
             /\ r.trade_id = retryCall.rows[i].trade_id
             /\ r.instrument = retryCall.rows[i].instrument_name
             /\ r.price # retryCall.rows[i].price
             /\ r.timestamp # retryCall.rows[i].timestamp
             /\ r.direction # retryCall.rows[i].direction

(***************************************************************************)
(* C15: when /api/subscribe naming X was answered while the collector's    *)
(* WebSocket was not open, X is in self.instruments from the moment the    *)
(* handler returned, and once a connect has followed, the subscription     *)
(* message of the latest connect holds both the ticker and the trades      *)
(* channel of X, unless an /api/unsubscribe has named X since.             *)
(***************************************************************************)
C15_QueuedSubscription ==
    \A c \in ConnectionIds : \A x \in Instruments :
        /\ queued[c][x] # "no" => x \in Range(collectors[c].instruments)
        /\ queued[c][x] = "connected" =>
              <<"ticker", x>> \in sentChannels[c] /\ <<"trades", x>> \in sentChannels[c]

\* ETH-C, not in the startup partition, was subscribed through the API while
\* the connection was not open, and a connect that was answered followed.
C15_SubscribedWhileClosed ==
    \E c \in ClientTargets :
        /\ queued[c]["ETH-C"] = "connected"
        /\ wsOpen[c]
        /\ <<"trades", "ETH-C">> \in sentChannels[c]
        /\ <<"ticker", "ETH-A">> \in sentChannels[c]

(***************************************************************************)
(* C16: after /api/unsubscribe naming an owned instrument X has returned,  *)
(* X is not in self.instruments, whether the WebSocket was open or closed  *)
(* and whether the unsubscribe message was answered, failed or timed out;  *)
(* and the subscription message of a connect that follows holds no         *)
(* channel of X, until an /api/subscribe names X again.                    *)
(***************************************************************************)
C16_UnsubscribeRemoves ==
    \A c \in ConnectionIds : \A x \in Instruments :
        /\ dropped[c][x] # "no" => x \notin Range(collectors[c].instruments)
        /\ dropped[c][x] = "connected" =>
              <<"ticker", x>> \notin sentChannels[c] /\ <<"trades", x>> \notin sentChannels[c]

\* ETH-A, of the startup partition, was unsubscribed in a session, its
\* channels stayed in subscribed_channels because the unsubscribe message
\* was not answered with a result, and a connect followed.
C16_UnsubscribedThenConnected ==
    \E c \in ClientTargets :
        /\ dropped[c]["ETH-A"] = "connected"
        /\ sentChannels[c] # {}
        /\ <<"ticker", "ETH-A">> \in collectors[c].subscribed_channels

(***************************************************************************)
(* C17: websocket_connected in the response of GET /api/status is true     *)
(* exactly when the collector has an open WebSocket session at that        *)
(* moment; it is false while the connection is lost.                       *)
(***************************************************************************)
C17_StatusReflectsSession ==
    \A c \in ConnectionIds :
        statusResp[c].done => (statusResp[c].websocket_connected <=> statusResp[c].open)

\* GET /api/status answered websocket_connected = true while the connection
\* of the last session was closed.
C17_ConnectedReportedWhileClosed ==
    \E c \in ClientTargets :
        /\ statusResp[c].done
        /\ statusResp[c].websocket_connected
        /\ ~statusResp[c].open

(***************************************************************************)
(* C18: the steps of a shutdown happen in this order: the running flag is  *)
(* cleared, the buffer is drained and handed to the writer one last time,  *)
(* the WebSocket is closed, the writer's pool is closed, and last the      *)
(* control API is stopped, after stop() has completed with nothing left    *)
(* in the buffer.                                                          *)
(***************************************************************************)
ShutdownOrder == <<"running_cleared", "flushed", "ws_closed", "pool_closed", "api_stopped">>

Position(step) == CHOOSE i \in DOMAIN ShutdownOrder : ShutdownOrder[i] = step

C18_ShutdownOrder ==
    /\ \A i, j \in DOMAIN stopLog :
          i < j => Position(stopLog[i]) < Position(stopLog[j])
    /\ (stopLog # <<>> /\ stopLog[Len(stopLog)] = "api_stopped") =>
          /\ Len(stopLog) >= 2
          /\ stopLog[1] = "running_cleared"
          /\ stopLog[2] = "flushed"
          /\ ~running
          /\ Buffered = {}
          /\ wsState # "open"
          /\ ~poolOpen

\* A collector that was in a session with a tick buffered has gone through
\* all five steps of the shutdown.
C18_FullShutdown ==
    /\ mainPc = "exited"
    /\ stopLog = ShutdownOrder
    /\ framesSeen > 0
    /\ lastDrain # NoLists
    /\ stats["quotes"].flushes_triggered = 1

(***************************************************************************)
(* C19: in start() the WebSocket connection is opened, and a frame is      *)
(* processed, only after the initial full-depth REST snapshot has been     *)
(* fetched and its rows have been written to the store.                    *)
(***************************************************************************)
C19_SnapshotBeforeWebSocket ==
    (running \/ wsState # "none" \/ framesSeen > 0) =>
        /\ snapshotDone
        /\ restAnswered \subseteq seedRows

\* A frame has been processed in a collector whose snapshot seeded two
\* instruments.
C19_FrameAfterSeed ==
    /\ framesSeen > 0
    /\ wsState = "open"
    /\ Cardinality(seedRows) = 2

(***************************************************************************)
(* C20: every check the heartbeat monitor makes after more than 300        *)
(* seconds without a tick triggers an instrument refresh, also when no     *)
(* tick has arrived since startup.                                         *)
(***************************************************************************)
C20_SilenceTriggersRefresh ==
    (lastCheck.done /\ lastCheck.silence > no_ticks_refresh_threshold_sec)
        => lastCheck.refreshed

\* The check 310 seconds after startup, with no tick received so far, did
\* not call _refresh_instruments.
C20_SilentSinceStartup ==
    /\ lastCheck.done
    /\ clock = 310
    /\ last_tick_time = NoTick
    /\ lastCheck.silence = 310
    /\ ~lastCheck.refreshed

(***************************************************************************)
(* C21: after the refresh loop has found an expired instrument in the      *)
(* owned list and called _refresh_instruments, the owned list holds no     *)
(* expired instrument, the WebSocket is not left open, and the session     *)
(* that follows subscribes exactly the two channels of every instrument    *)
(* of the owned list; for a collector with its own top-N list and for one  *)
(* started with a pre-assigned partition.                                  *)
(***************************************************************************)
C21_RefreshReplacesExpired ==
    lastRefresh.done =>
        /\ \A i \in DOMAIN lastRefresh.instruments :
              ~is_instrument_expired(lastRefresh.instruments[i], 5, lastRefresh.at)
        /\ lastRefresh.ws # "open"
        /\ resubscribed => subscribed = SubscriptionChannels(self_instruments)

\* A collector with a pre-assigned partition: the catalog answered the
\* refresh, and the expired instrument is still owned on the open
\* connection.
C21_PartitionKeepsExpired ==
    /\ lastRefresh.done
    /\ top_n_instruments = 0
    /\ lastRefresh.answered
    /\ is_instrument_expired(Expiring, 5, lastRefresh.at)
    /\ Expiring \in Range(lastRefresh.instruments)
    /\ lastRefresh.ws = "open"

(***************************************************************************)
(* C22: a WebSocket error, the backoff sleep and the reconnect discard no  *)
(* buffered tick: in every step other than the arrival of a new tick, each *)
(* tick that was in the buffer or had been handed to the writer is still   *)
(* in the buffer or has been handed to the writer; and a step of the       *)
(* WebSocket loop leaves the buffer as it is.                              *)
(***************************************************************************)
C22_ReconnectKeepsBuffer ==
    [][/\ nextTick' = nextTick =>
             (Buffered \cup flushed) \subseteq (Buffered' \cup flushed')
       /\ loopPc' # loopPc =>
             /\ quotes' = quotes
             /\ trades' = trades
             /\ depth' = depth]_vars

\* After a WebSocket error and the backoff sleep the loop is connecting
\* again, and a tick of the lost session is still in the buffer.
C22_BufferedAcrossReconnect ==
    /\ loopPc = "connect"
    /\ connection_attempts >= 2
    /\ failures >= 1
    /\ slept >= 1
    /\ Buffered # {}

(***************************************************************************)
(* C23: an orchestrator process whose connection id is greater than or     *)
(* equal to the number of partitions (zero partitions included) never      *)
(* starts its control API, never opens a WebSocket, and leaves             *)
(* get_partition_for_connection only to exit with status 1.                *)
(***************************************************************************)
NumPartitions ==
    Len(partition_instruments(ActiveOptions(orchArgs.exchange), MaxPerPartition))

C23_BadConnectionIdExits ==
    (orchArgs.fetched /\ orchArgs.connection_id >= NumPartitions) =>
        /\ mainPc \in {"get_partition", "exit_1"}
        /\ ~apiUp
        /\ wsState = "none"
        /\ ~running

\* The process of connection id 2 has exited with status 1: the exchange
\* lists options for two partitions.
C23_ExitedBeyondLastPartition ==
    /\ orchArgs.fetched
    /\ NumPartitions >= 1
    /\ orchArgs.connection_id = NumPartitions
    /\ mainPc = "exit_1"
    /\ ~apiUp

(***************************************************************************)
(* C24: for a dated-future name CCY-DDMMMYY, parse_expiry_from_instrument  *)
(* returns 08:00 UTC of the date named, is_instrument_expired is true      *)
(* exactly from that moment plus the buffer on, and get_next_expiry_time   *)
(* of the name is that moment.                                             *)
(***************************************************************************)
C24_FutureExpiryParsed ==
    (expRet.done /\ expArgs.named # NoDate) =>
        /\ expRet.parsed = Settlement(expArgs.named)
        /\ expRet.expired <=>
               expArgs.now >= Settlement(expArgs.named) + expArgs.buffer_minutes * 60
        /\ expRet.next_expiry = Settlement(expArgs.named)

\* ETH-10NOV25 five minutes after its settlement: no expiry is parsed, the
\* name counts as live and gives no next expiry time.
C24_FutureNeverExpires ==
    /\ expRet.done
    /\ expArgs.named = <<2025, 11, 10>>
    /\ expArgs.buffer_minutes = 5
    /\ expArgs.now = Settlement(expArgs.named) + 300
    /\ expRet.parsed = NoExpiry
    /\ ~expRet.expired
    /\ expRet.kept = <<expArgs.name>>
    /\ expRet.next_expiry = NoExpiry

(***************************************************************************)
(* C25: a get_top_n_options call made less than one hour after the last    *)
(* successful fetch makes no REST request and returns the cached answer;   *)
(* a call whose REST request fails returns the last cached answer when an  *)
(* earlier fetch has succeeded, and raises when none has.                  *)
(***************************************************************************)
C25_CacheAndStaleFallback ==
    lastFetch.done =>
        /\ (lastFetch.before.some /\ lastFetch.at - lastFetch.before.at < cache_duration)
               => /\ ~lastFetch.requested
                  /\ ~lastFetch.raised
                  /\ lastFetch.ret = Slice(lastFetch.before.names, 0, lastFetch.n)
        /\ (lastFetch.restFailed /\ lastFetch.before.some)
               => /\ ~lastFetch.raised
                  /\ lastFetch.ret = Slice(lastFetch.before.names, 0, lastFetch.n)
        /\ (lastFetch.restFailed /\ ~lastFetch.before.some) => lastFetch.raised

\* The last successful fetch returned an empty list; more than an hour
\* later the REST request fails and the call raises.
C25_RaisedAfterEmptyAnswer ==
    /\ lastFetch.done
    /\ lastFetch.before.some
    /\ lastFetch.before.names = <<>>
    /\ lastFetch.at - lastFetch.before.at >= cache_duration
    /\ lastFetch.restFailed
    /\ lastFetch.raised

(***************************************************************************)
(* C26: a POST /api/subscribe or /api/unsubscribe whose body is not valid  *)
(* JSON, has no instruments member or has an empty instruments list is     *)
(* answered with a 4xx status, success = false and an error text, and      *)
(* leaves the collector's instruments and subscribed channels unchanged.   *)
(***************************************************************************)
C26_InvalidRequestIs4xx ==
    \A c \in ConnectionIds :
        (httpResp[c].done /\ httpResp[c].request = <<>>) =>
            /\ httpResp[c].status \in 400..499
            /\ ~httpResp[c].success
            /\ httpResp[c].error
            /\ httpResp[c].unchanged

\* A body that is not JSON, sent to a collector that owns instruments, was
\* answered with status 500.
C26_NotJsonAnswered500 ==
    \E c \in ConnectionIds :
        /\ httpResp[c].done
        /\ httpResp[c].kind = "not_json"
        /\ httpResp[c].status = 500
        /\ ~httpResp[c].success
        /\ httpResp[c].unchanged
        /\ collectors[c].instruments # <<>>

(***************************************************************************)
(* C27: in a sync cycle of the lifecycle manager in which the subscribe or *)
(* unsubscribe RPC to a collector fails (no 200 answer) and the database   *)
(* takes every write, a success=False row naming that collector is in      *)
(* lifecycle_events for every failed RPC, the RPC was posted to every      *)
(* collector for every expired and every new instrument of the cycle, each *)
(* of these instruments was marked in instrument_metadata, and             *)
(* last_seen_at was updated for the active set.                            *)
(***************************************************************************)
C27_RpcFailureIsolated ==
    (cycle.done /\ ~cycle.dbFailed /\ rpcLog.failedRpc # {}) =>
        /\ rpcLog.failedEvents = rpcLog.failedRpc
        /\ rpcLog.posted =
               ((cycle.T \ cycle.A) \cup (cycle.A \ cycle.T)) \X ConnectionIds
        /\ \A n \in cycle.T \ cycle.A : instrument_metadata[n] = "inactive"
        /\ \A n \in cycle.A \ cycle.T : instrument_metadata[n] = "active"
        /\ rpcLog.last_seen = cycle.A

\* A cycle ended in which the unsubscribe of ETH-A got no 200 answer from the
\* running collector 0: collector 1 was posted to all the same, ETH-C was
\* then listed with both collectors, and last_seen_at was updated.
C27_FailedRpcThenRest ==
    /\ cycle.done
    /\ ~cycle.dbFailed
    /\ collectors[0].started
    /\ <<"ETH-A", 0>> \in rpcLog.failedRpc
    /\ <<"ETH-A", 0>> \in rpcLog.failedEvents
    /\ <<"ETH-A", 1>> \in rpcLog.counted
    /\ {<<"ETH-C", 0>>, <<"ETH-C", 1>>} \subseteq rpcLog.posted
    /\ instrument_metadata["ETH-C"] = "active"
    /\ rpcLog.last_seen = {"ETH-B", "ETH-C"}

(***************************************************************************)
(* C28: when a collector's 200 answer to the manager's subscribe RPC lists *)
(* the new instrument under 'failed' (the exchange rejected the            *)
(* subscription) and the database takes every write, lifecycle_events has  *)
(* a success=False row for that instrument and collector, and the          *)
(* collector is not in the instrument's success_count.                     *)
(***************************************************************************)
C28_RejectionRecorded ==
    ~cycle.dbFailed =>
        \A row \in rpcLog.reportedFailed :
            row[1] \in cycle.A \ cycle.T =>
                row \in rpcLog.failedEvents /\ row \notin rpcLog.counted

\* A cycle ended with the database up in which collector 0 answered the
\* subscribe of ETH-C with the instrument under 'failed': the manager counted
\* collector 0 as a success and wrote no failed row for it.
C28_RejectionCountedAsSuccess ==
    /\ cycle.done
    /\ ~cycle.dbFailed
    /\ "ETH-C" \in cycle.A \ cycle.T
    /\ collectors[0].ws
    /\ <<"ETH-C", 0>> \in rpcLog.reportedFailed
    /\ <<"ETH-C", 0>> \in rpcLog.counted
    /\ <<"ETH-C", 0>> \notin rpcLog.failedEvents

(***************************************************************************)
(* C29: while start() is in its loop, every funding publication time       *)
(* (00:00, 08:00, 16:00 UTC) that passed after the loop began, and that    *)
(* lies two check intervals or more in the past, has a call of             *)
(* _collect_latest_funding_rates within the two check intervals after it.  *)
(***************************************************************************)
C29_FundingCollectedOnCadence ==
    (fundPc = "loop" /\ fundRunning) =>
        \A p \in FundingTimes :
            (fundStarted < p /\ p + 2 * check_interval_sec <= fundNow) =>
                \E c \in collectedAt : p <= c /\ c <= p + 2 * check_interval_sec

\* The loop began before 08:00 and has run past 16:00 and the midnight after
\* it without one call of _collect_latest_funding_rates.
C29_PublicationsPassedUncollected ==
    /\ fundPc = "loop"
    /\ fundRunning
    /\ fundStarted < 8 * HourSeconds
    /\ fundNow > DaySeconds + 2 * check_interval_sec
    /\ collectedAt = {}

(***************************************************************************)
(* C30: after a flush in which one sub-batch failed on its final retry,    *)
(* the drained ticks missing from the store are exactly those of that      *)
(* sub-batch: the later sub-batches of the same write call and the other   *)
(* lists drained in the same flush are in the store.                       *)
(***************************************************************************)
C30_OnlyFailedSubBatchLost ==
    (lastFlushCall.done /\ lastFlushCall.failKind # "none") =>
        \A k \in Range(TickKinds) :
            Range(lastFlushCall.drained[k]) \ storeRows[k] =
                IF k = lastFlushCall.failKind
                THEN Range(SubBatch(lastFlushCall.drained[k], storeBatch,
                                    lastFlushCall.failAt))
                ELSE {}

\* A flush drained two quotes, a trade and a depth snapshot with batch_size
\* 1 and the first quote sub-batch failed: the second quote, the trade and
\* the depth snapshot are not in the store either.
C30_RestOfFlushLost ==
    /\ lastFlushCall.done
    /\ storeBatch = 1
    /\ lastFlushCall.failKind = "quotes"
    /\ lastFlushCall.failAt = 1
    /\ lastFlushCall.drained =
           [quotes |-> <<1, 2>>, trades |-> <<1>>, depth |-> <<1>>]
    /\ storeRows = NoRows

(***************************************************************************)
(* C31: a frame that cannot be decoded (not JSON, or a ticker or trades    *)
(* payload with a required field missing in one of its records) adds no    *)
(* tick to the buffer and adds exactly one to the error counter.           *)
(***************************************************************************)
C31_BadFrameSkipped ==
    (lastFrame.done /\ Undecodable(lastFrame.frame)) =>
        lastFrame.added = 0 /\ lastFrame.errors = 1

\* A trades frame of two records, the second lacking a required field, was
\* read after another frame: its first record is in the buffer.
C31_PartOfBadFrameBuffered ==
    /\ lastFrame.done
    /\ framesRead = 2
    /\ lastFrame.frame = [kind |-> "trades", records |-> <<TRUE, FALSE>>]
    /\ lastFrame.added = 1
    /\ lastFrame.errors = 1
    /\ frameBuffered.trades >= 1

(***************************************************************************)
(* C32: after a sync cycle whose database operations all succeeded, the    *)
(* instruments with is_active = TRUE are the exchange-active set of that   *)
(* cycle; and a cycle that follows such a cycle with the same              *)
(* exchange-active set has nothing to expire and nothing to list, logs no  *)
(* instrument_expired or instrument_listed row and posts no RPC.           *)
(***************************************************************************)
C32_ActiveSetFollowsExchange ==
    /\ (cycle.done /\ ~cycle.dbFailed) =>
           {n \in Instruments : instrument_metadata[n] = "active"} = cycle.A
    /\ (rpcLog.prev.ok /\ cycle.A = rpcLog.prev.A) =>
           /\ todoExpired = {}
           /\ todoNew = <<>>
           /\ \A n \in Instruments : cycle.expired[n] = 0 /\ cycle.listed[n] = 0
           /\ rpcLog.posted = {}

\* A second cycle ended after a first one that expired ETH-A and listed
\* ETH-C: it found the same active set and did nothing.
C32_SecondSyncQuiet ==
    /\ syncs = 2
    /\ cycle.done
    /\ rpcLog.prev.ok
    /\ rpcLog.prev.A = {"ETH-B", "ETH-C"}
    /\ cycle.A = {"ETH-B", "ETH-C"}
    /\ cycle.T = cycle.A
    /\ instrument_metadata["ETH-A"] = "inactive"
    /\ rpcLog.posted = {}

(***************************************************************************)
(* C33: for each of the three queues of TickBuffer, as long as clear_all   *)
(* has not been called, ticks_received equals ticks_written plus the       *)
(* number of items in the queue.                                           *)
(***************************************************************************)
C33_ReceivedIsWrittenPlusQueued ==
    ~clearAllCalled =>
        /\ stats["quotes"].ticks_received = stats["quotes"].ticks_written + Len(quotes)
        /\ stats["trades"].ticks_received = stats["trades"].ticks_written + Len(trades)
        /\ stats["depth"].ticks_received = stats["depth"].ticks_written + Len(depth)

\* The trades queue is full, nothing was drained and clear_all was not
\* called, yet one more trade was received than the queue holds.
C33_EvictedTradeUncounted ==
    /\ ~clearAllCalled
    /\ Len(trades) = MaxTrades
    /\ stats["trades"].ticks_written = 0
    /\ stats["trades"].flushes_triggered = 0
    /\ stats["trades"].ticks_received = MaxTrades + 1

C36_UnansweredRpcSentAgain ==
    (cycle.done /\ \A c \in ConnectionIds : collectors[c].started) =>
        \A n \in rpcLog.prev.unanswered :
            \E c \in ConnectionIds : <<n, c>> \in rpcLog.posted

\* ETH-C was listed and written to instrument_metadata, no collector
\* answered its subscribe RPC, and the next cycle, with both collectors up,
\* ran to its end without posting anything: no collector owns ETH-C.
C36_ListedNeverSubscribed ==
    /\ cycle.done
    /\ ~cycle.dbFailed
    /\ rpcLog.prev.unanswered = {"ETH-C"}
    /\ "ETH-C" \in cycle.A
    /\ instrument_metadata["ETH-C"] = "active"
    /\ rpcLog.posted = {}
    /\ \A c \in ConnectionIds :
          /\ collectors[c].started
          /\ "ETH-C" \notin Range(collectors[c].instruments)

(***************************************************************************)
(* C37: once the writer's pool has been closed by a shutdown, every tick   *)
(* that was accepted into the buffer has been handed to the writer while   *)
(* the pool was open: none is left in the buffer, none was drained by a    *)
(* flush that found the pool closed, and none is accepted afterwards.      *)
(***************************************************************************)
C37_AcceptedTicksReachWriter ==
    ~sigPool => /\ sigQueue = {}
                /\ sigRefused = {}
                /\ sigHanded = 1..sigNext

\* The signal's stop() drained tick 1 and awaited the write; tick 2 arrived
\* meanwhile; stop() closed the connection and the pool; the stop() of the
\* finally clause drained tick 2 and its write raised on the closed pool.
C37_TickAfterFinalDrainRefused ==
    /\ startPc = "returned"
    /\ stops["signal"].drained = {1}
    /\ stops["finally"].drained = {2}
    /\ sigHanded = {1}
    /\ sigRefused = {2}

(***************************************************************************)
(* C38: after stop() has been called on a running collector, its six       *)
(* tasks return and start() returns, wherever the tasks were when stop()   *)
(* was called.                                                             *)
(***************************************************************************)
C38_StopEndsTasksAndStart ==
    (stops["signal"].pc # "none") ~>
        (startPc = "returned" /\ sessPc = "ended" /\ sleepers = {})

\* stop() ran while websockets.connect was under way: it found no open
\* connection to close and has returned, the five sleeping tasks have
\* returned, and _process_messages iterates over the connection opened
\* since, with self.running false and start() still in asyncio.gather.
C38_SessionOutlivesStop ==
    /\ stops["signal"].pc = "done"
    /\ ~sigRunning
    /\ sleepers = {}
    /\ sessPc = "reading"
    /\ sigWs = "open"
    /\ startPc = "gather"

(***************************************************************************)
(* C39: after the same write_quotes and write_trades calls on TickWriter   *)
(* and on MultiCurrencyTickWriter('ETH'), from the same store, the quotes  *)
(* tables are equal and the trades tables are equal.                       *)
(***************************************************************************)
C39_WritersAgree ==
    /\ ethQuotes = quotesTable
    /\ ethTrades = tradesTable

\* A quote with the Greeks and no book (the REST snapshot's shape here) and
\* then a quote with the book and no Greeks were written for one
\* (timestamp, instrument): the multi-currency writer's row has both, the
\* ETH-only writer's row has the first quote's columns only.
C39_SecondQuoteDroppedByEthWriter ==
    /\ tradesTable = {} /\ ethTrades = {}
    /\ \E r \in quotesTable : \E e \in ethQuotes :
          /\ r.timestamp = e.timestamp
          /\ \A c \in QuoteCols : r.cols[c] # NULL
          /\ \A c \in BookCols : e.cols[c] = NULL
          /\ \A c \in NonBookCols : e.cols[c] = r.cols[c]

(***************************************************************************)
(* C40: a check of the heartbeat monitor that calls _refresh_instruments   *)
(* after an earlier check has called it comes more than 300 seconds after  *)
(* that earlier call, whichever way the earlier refresh ended.             *)
(***************************************************************************)
C40_RefreshesFarApart ==
    (lastCheck.refreshed /\ lastCheck.gap # 0) =>
        lastCheck.gap > no_ticks_refresh_threshold_sec

\* The last tick came at startup; the check at 310 s called
\* _refresh_instruments, which found no active instrument and returned; the
\* check at 320 s called it again.
C40_RefreshRepeatedAfterTenSeconds ==
    /\ clock = 320
    /\ last_tick_time = 0
    /\ lastCheck.refreshed
    /\ lastCheck.refreshedAt = 320
    /\ lastCheck.gap = heartbeat_timeout_sec

====
